---- MODULE Spec2Model ----
(***************************************************************************)
(* A model of swagger-type-parser's generator: the endpoint namer and the  *)
(* folder resolver (path-utils.ts, api-endpoints-generator.ts), the        *)
(* dependency extractor (dependencies.ts), the schema compiler             *)
(* (schema-generator.ts) and the URL-constant tree builder.                *)
(*                                                                         *)
(* Strings of the program are TLA+ strings; TLC treats a string as the     *)
(* sequence of its characters (Len, Head, Tail, SubSeq, \o).               *)
(***************************************************************************)
EXTENDS Naturals, Sequences, FiniteSets, TLC

VARIABLES
    pc,            \* position of the operation being run
    path,          \* namer: the URL path given
    prefixSkip,    \* config.pathPrefixSkip
    nameOut,       \* pathToEndpointName's result
    folderOut,     \* getEndpointFolderPath's result
    spec,          \* the normalized document (NormalizedSpec.components)
    schema,        \* the schema node an operation is called on
    pointer,       \* resolveRef: the reference string given
    target,        \* resolveRef: the result, <<>> for null
    stack,         \* extractDependencies: the call stack of traverse
    deps,          \* extractDependencies: the Set deps, in insertion order
    out,           \* schemaToTypeScript's result
    typeMap,       \* generateTypes: the Map types, in insertion order
    metas,         \* generateApiEndpoints: the EndpointMeta of every operation
    resolvedNames, \* generateApiEndpoints: resolveEndpointNames(metas)
    structure,     \* generateApiEndpoints: the nested tree of URL constants
    placed,        \* generateApiEndpoints: the number of metas already placed
    previous,      \* what an earlier run over the same document returned, else <<>>
    urlTemplate,   \* buildUrl: the template given
    urlParams,     \* buildUrl: the entries of params, in Object.entries order
    built,         \* buildUrl: what the call returned or threw
    cliConfig,     \* mergeConfig: the options given on the command line
    configFile,    \* mergeConfig: the path given and what the file system holds
    merged,        \* mergeConfig: what the call returned or threw
    swagger,       \* normalizeSpec: the paths of the Swagger 2.0 document given
    normalized     \* normalizeSpec: the paths of the document returned

pathVars == <<path, prefixSkip, nameOut, folderOut>>
docVars == <<spec, schema, pointer, target>>
depsVars == <<stack, deps>>
genVars == <<typeMap, metas, resolvedNames, structure, placed, previous>>
urlVars == <<urlTemplate, urlParams, built>>
configVars == <<cliConfig, configFile, merged>>
normVars == <<swagger, normalized>>
vars == <<pc, pathVars, docVars, depsVars, out, genVars, urlVars, configVars, normVars>>

\* No generator run has touched the endpoint state, nothing was resolved.
NothingGenerated ==
    /\ target = <<>>
    /\ typeMap = <<>>
    /\ metas = <<>>
    /\ resolvedNames = <<>>
    /\ structure = {}
    /\ placed = 0
    /\ previous = <<>>

\* buildUrl has not been called.
NotBuilt == built = [threw |-> FALSE, value |-> ""]
NothingBuilt == urlTemplate = "" /\ urlParams = <<>> /\ NotBuilt

\* mergeConfig has not been called.
NotMerged == merged = [threw |-> FALSE, value |-> <<>>]
NothingMerged == cliConfig = <<>> /\ configFile = <<>> /\ NotMerged

\* normalizeSpec has not been called.
NothingNormalized == swagger = <<>> /\ normalized = <<>>

(***************************************************************************)
(* Bounds of the model.                                                    *)
(***************************************************************************)
MaxPathTokens == 5
MaxSkip == 1
MaxCallDepth == 6

(***************************************************************************)
(* String primitives of the JavaScript runtime, by what they do.           *)
(***************************************************************************)
UpperChars == "ABCDEFGHIJKLMNOPQRSTUVWXYZ"
LowerChars == "abcdefghijklmnopqrstuvwxyz"
DigitChars == "0123456789"

RECURSIVE IndexOf(_, _, _)
IndexOf(c, s, i) ==
    IF i > Len(s) THEN 0
    ELSE IF SubSeq(s, i, i) = c THEN i
    ELSE IndexOf(c, s, i + 1)

Includes(s, c) == IndexOf(c, s, 1) > 0

LowerChar(c) ==
    LET i == IndexOf(c, UpperChars, 1)
    IN  IF i > 0 THEN SubSeq(LowerChars, i, i) ELSE c

RECURSIVE ToLowerCase(_)
ToLowerCase(s) ==
    IF s = "" THEN "" ELSE LowerChar(Head(s)) \o ToLowerCase(Tail(s))

RECURSIVE ReplaceAll(_, _, _)
ReplaceAll(s, c, by) ==
    IF s = "" THEN ""
    ELSE (IF Head(s) = c THEN by ELSE Head(s)) \o ReplaceAll(Tail(s), c, by)

IsSpace(c) == c \in {" ", "\t", "\n", "\r"}

RECURSIVE TrimStart(_)
TrimStart(s) ==
    IF s # "" /\ IsSpace(Head(s)) THEN TrimStart(Tail(s)) ELSE s

RECURSIVE TrimEnd(_)
TrimEnd(s) ==
    IF s # "" /\ IsSpace(SubSeq(s, Len(s), Len(s)))
    THEN TrimEnd(SubSeq(s, 1, Len(s) - 1))
    ELSE s

Trim(s) == TrimEnd(TrimStart(s))

RECURSIVE StripLeading(_, _)
StripLeading(s, c) ==
    IF s # "" /\ Head(s) = c THEN StripLeading(Tail(s), c) ELSE s

RECURSIVE StripTrailing(_, _)
StripTrailing(s, c) ==
    IF s # "" /\ SubSeq(s, Len(s), Len(s)) = c
    THEN StripTrailing(SubSeq(s, 1, Len(s) - 1), c)
    ELSE s

\* path.replace(/^\/+|\/+$/g, '')
StripSlashes(s) == StripTrailing(StripLeading(s, "/"), "/")

\* String.prototype.split(sep) for a one-character separator: "" splits to [""].
RECURSIVE SplitFrom(_, _, _)
SplitFrom(s, sep, cur) ==
    IF s = "" THEN <<cur>>
    ELSE IF Head(s) = sep THEN <<cur>> \o SplitFrom(Tail(s), sep, "")
    ELSE SplitFrom(Tail(s), sep, cur \o Head(s))

Split(s, sep) == SplitFrom(s, sep, "")

\* Array.prototype.join(sep)
RECURSIVE Join(_, _)
Join(parts, sep) ==
    IF Len(parts) = 0 THEN ""
    ELSE IF Len(parts) = 1 THEN parts[1]
    ELSE parts[1] \o sep \o Join(Tail(parts), sep)

Range(seq) == {seq[i] : i \in 1..Len(seq)}

\* Array.prototype.slice(n): n may exceed the length
Slice(xs, n) == IF n >= Len(xs) THEN <<>> ELSE SubSeq(xs, n + 1, Len(xs))

\* Array.prototype.slice(0, -1)
DropLast(xs) == IF Len(xs) = 0 THEN <<>> ELSE SubSeq(xs, 1, Len(xs) - 1)

(***************************************************************************)
(* path-utils.ts                                                           *)
(***************************************************************************)
NonEmptyStr(s) == s # ""
NoBrace(segment) == ~Includes(segment, "{") /\ ~Includes(segment, "}")
DashToUnderscore(segments) ==
    [i \in 1..Len(segments) |-> ReplaceAll(segments[i], "-", "_")]

\* The early return of both the namer and the folder resolver.
IsRootPath(p) == p = "/" \/ Trim(p) = "" \/ StripSlashes(p) = ""

\* segments -> filteredSegments -> skippedSegments
SkippedSegments(p, skip) ==
    LET segments == SelectSeq(Split(StripSlashes(p), "/"), NonEmptyStr)
        filteredSegments == SelectSeq(segments, NoBrace)
        skipCount == IF skip > 0 THEN skip * 2 ELSE 0
    IN  Slice(filteredSegments, skipCount)

\* Mutant: the prefix skip counts single segments instead of pairs.
pathToEndpointName_SkipsSingles(p, skip) ==
    IF IsRootPath(p) THEN "root"
    ELSE LET kept == SelectSeq(SelectSeq(Split(StripSlashes(p), "/"), NonEmptyStr),
                               NoBrace)
             skippedSegments == Slice(kept, skip)
         IN  IF Len(skippedSegments) = 0 THEN "root"
             ELSE ToLowerCase(Join(DashToUnderscore(skippedSegments), "_"))

pathToEndpointName(p, skip) ==
    IF IsRootPath(p) THEN "root"
    ELSE LET skippedSegments == SkippedSegments(p, skip)
         IN  IF Len(skippedSegments) = 0 THEN "root"
             ELSE ToLowerCase(Join(DashToUnderscore(skippedSegments), "_"))

(***************************************************************************)
(* api-endpoints-generator.ts: getEndpointFolderPath                       *)
(***************************************************************************)
\* Mutant: the last segment is kept in the folder path.
getEndpointFolderPath_KeepsLast(p, skip) ==
    IF IsRootPath(p) THEN ""
    ELSE LET skippedSegments == SkippedSegments(p, skip)
         IN  IF Len(skippedSegments) <= 1 THEN ""
             ELSE ToLowerCase(Join(DashToUnderscore(skippedSegments), "/"))

getEndpointFolderPath(p, skip) ==
    IF IsRootPath(p) THEN ""
    ELSE LET skippedSegments == SkippedSegments(p, skip)
         IN  IF Len(skippedSegments) <= 1 THEN ""
             ELSE ToLowerCase(
                    Join(DashToUnderscore(DropLast(skippedSegments)), "/"))

(***************************************************************************)
(* types.ts: Schema | Reference.  An optional key is a sequence of length  *)
(* at most one: <<>> when the key is absent, <<v>> when it holds v.        *)
(* additionalProperties is ap = "absent", "true", "false" or "schema",     *)
(* with the schema in apSchema.  properties is a sequence of [key, value]  *)
(* in the object's key order.                                              *)
(***************************************************************************)
NoKeys ==
    [ref |-> <<>>, type |-> <<>>, nullable |-> <<>>, description |-> <<>>,
     properties |-> <<>>, required |-> <<>>, items |-> <<>>,
     oneOf |-> <<>>, anyOf |-> <<>>, allOf |-> <<>>, enum |-> <<>>,
     ap |-> "absent", apSchema |-> <<>>]

Ref(r) == [NoKeys EXCEPT !.ref = <<r>>]
Typed(t) == [NoKeys EXCEPT !.type = <<t>>]
SchemaRef(n) == Ref("#/components/schemas/" \o n)
Prop(k, v) == [key |-> k, value |-> v]
ObjectOf(props) == [NoKeys EXCEPT !.type = <<"object">>, !.properties = <<props>>]
ArrayOf(item) == [NoKeys EXCEPT !.type = <<"array">>, !.items = <<item>>]

\* A mapping of the document (components.schemas, ...): a sequence of
\* [name, value] with distinct names, in the mapping's key order.
Entry(n, v) == [name |-> n, value |-> v]
EmptySpec ==
    [paths |-> <<>>, schemas |-> <<>>, parameters |-> <<>>, responses |-> <<>>]

RECURSIVE Lookup(_, _)
Lookup(entries, key) ==
    IF Len(entries) = 0 THEN <<>>
    ELSE IF entries[1].name = key THEN <<entries[1].value>>
    ELSE Lookup(Tail(entries), key)

(***************************************************************************)
(* parser.ts                                                               *)
(***************************************************************************)
isRef(obj) == Len(obj.ref) = 1

StartsWith(s, prefix) ==
    Len(s) >= Len(prefix) /\ SubSeq(s, 1, Len(prefix)) = prefix

\* Mutant: every component type is looked up in components.schemas.
resolveRef_SchemasOnly(ref, sp) ==
    IF ~StartsWith(ref, "#/") THEN <<>>
    ELSE LET parts == Split(SubSeq(ref, 3, Len(ref)), "/")
         IN  IF Len(parts) < 2 THEN <<>>
             ELSE IF parts[1] = "components"
             THEN IF Len(parts) < 3 THEN <<>>
                  ELSE Lookup(sp.schemas, Join(Slice(parts, 2), "/"))
             ELSE IF parts[1] = "definitions"
             THEN Lookup(sp.schemas, Join(Tail(parts), "/"))
             ELSE <<>>

\* The result is <<>> for null and <<object>> otherwise.
resolveRef(ref, sp) ==
    IF ~StartsWith(ref, "#/") THEN <<>>
    ELSE LET parts == Split(SubSeq(ref, 3, Len(ref)), "/")
         IN  IF Len(parts) < 2 THEN <<>>
             ELSE LET section == parts[1]
                      key == Join(Tail(parts), "/")
                  IN  IF section = "components"
                      THEN IF Len(parts) < 3 THEN <<>>
                           ELSE LET componentType == parts[2]
                                    componentKey == Join(Slice(parts, 2), "/")
                                IN  CASE componentType = "schemas" ->
                                            Lookup(sp.schemas, componentKey)
                                      [] componentType = "parameters" ->
                                            Lookup(sp.parameters, componentKey)
                                      [] componentType = "responses" ->
                                            Lookup(sp.responses, componentKey)
                                      [] OTHER -> <<>>
                      ELSE IF section = "definitions"
                      THEN Lookup(sp.schemas, key)
                      ELSE <<>>

\* a caller resolves a reference
ResolveRef ==
    /\ pc = "resolve"
    /\ target' = resolveRef(pointer, spec)
    /\ pc' = "resolved"
    /\ UNCHANGED <<spec, schema, pointer, pathVars, urlVars, depsVars, out, genVars, configVars, normVars>>

\* 'type' in resolved
HasTypeKey(obj) == "type" \in DOMAIN obj /\ Len(obj.type) = 1

(***************************************************************************)
(* path-utils.ts: extractTypeNameFromRef                                   *)
(***************************************************************************)
extractTypeNameFromRef(ref) ==
    LET parts == Split(ref, "/") IN parts[Len(parts)]

(***************************************************************************)
(* dependencies.ts: extractDependencies.  traverse is recursive; the model *)
(* keeps its call stack.  A frame holds the nodes its call has still to    *)
(* traverse, in the order of the code.  A call deeper than the runtime's   *)
(* stack allows throws RangeError, which nothing catches.                  *)
(***************************************************************************)
PropertyValues(s) ==
    IF Len(s.properties) = 0 THEN <<>>
    ELSE [i \in 1..Len(s.properties[1]) |-> s.properties[1][i].value]

ListOf(opt) == IF Len(opt) = 0 THEN <<>> ELSE opt[1]

\* The calls traverse(s) makes, in order.
TraverseCalls(s, sp) ==
    IF isRef(s)
    THEN LET resolved == resolveRef(s.ref[1], sp)
         IN  IF Len(resolved) = 1 /\ HasTypeKey(resolved[1]) THEN resolved ELSE <<>>
    ELSE PropertyValues(s) \o s.items \o ListOf(s.oneOf) \o ListOf(s.anyOf)
            \o ListOf(s.allOf) \o s.apSchema

SetAdd(seq, x) ==
    IF \E i \in 1..Len(seq) : seq[i] = x THEN seq ELSE Append(seq, x)

\* What entering traverse(s) does to deps.
DepsOnEnter(d, s) ==
    IF isRef(s) THEN SetAdd(d, extractTypeNameFromRef(s.ref[1])) ELSE d

Frame(s, sp) == [node |-> s, todo |-> TraverseCalls(s, sp)]

\* extractDependencies(schema, spec) is called: traverse(schema)
ExtractStart ==
    /\ pc = "extract"
    /\ stack' = <<Frame(schema, spec)>>
    /\ deps' = DepsOnEnter(<<>>, schema)
    /\ pc' = "traverse"
    /\ UNCHANGED <<pathVars, docVars, urlVars, out, genVars, configVars, normVars>>

\* the running call of traverse makes its next recursive call
TraverseCall ==
    /\ pc = "traverse"
    /\ Len(stack) > 0
    /\ Len(stack[Len(stack)].todo) > 0
    /\ Len(stack) < MaxCallDepth
    /\ LET top == stack[Len(stack)]
           next == top.todo[1]
       IN  /\ stack' = Append(
                    [stack EXCEPT ![Len(stack)].todo = Tail(top.todo)],
                    Frame(next, spec))
           /\ deps' = DepsOnEnter(deps, next)
    /\ UNCHANGED <<pc, pathVars, docVars, urlVars, out, genVars, configVars, normVars>>

\* the recursive call does not fit the stack: RangeError
TraverseOverflow ==
    /\ pc = "traverse"
    /\ Len(stack) > 0
    /\ Len(stack[Len(stack)].todo) > 0
    /\ Len(stack) >= MaxCallDepth
    /\ pc' = "RangeError"
    /\ stack' = <<>>
    /\ UNCHANGED <<deps, pathVars, docVars, urlVars, out, genVars, configVars, normVars>>

\* the running call of traverse has nothing left to visit and returns
TraverseReturn ==
    /\ pc = "traverse"
    /\ Len(stack) > 0
    /\ Len(stack[Len(stack)].todo) = 0
    /\ stack' = SubSeq(stack, 1, Len(stack) - 1)
    /\ UNCHANGED <<pc, deps, pathVars, docVars, urlVars, out, genVars, configVars, normVars>>

\* traverse(schema) has returned: return Array.from(deps)
ExtractReturn ==
    /\ pc = "traverse"
    /\ Len(stack) = 0
    /\ pc' = "extracted"
    /\ UNCHANGED <<stack, deps, pathVars, docVars, urlVars, out, genVars, configVars, normVars>>

(***************************************************************************)
(* schema-generator.ts: schemaToTypeScript and its helpers.  The result is *)
(* the type expression; a recursion deeper than the runtime's stack allows *)
(* throws RangeError, which is the result RangeError below and is passed   *)
(* up by every caller.                                                     *)
(***************************************************************************)
RangeError == "<RangeError>"

AnyThrown(results) == \E i \in 1..Len(results) : results[i] = RangeError

Truthy(opt) == Len(opt) = 1 /\ opt[1] = TRUE

\* Mutant: a list that is present but empty is handled as well.
NonEmptyList_AnyList(opt) == Len(opt) = 1

\* schema.oneOf && schema.oneOf.length > 0
NonEmptyList(opt) == Len(opt) = 1 /\ Len(opt[1]) > 0

isEmptySchema(s) ==
    IF isRef(s) THEN FALSE
    ELSE /\ (Len(s.type) = 0 \/ s.type[1] = "null")
         /\ Len(s.properties) = 0
         /\ Len(s.items) = 0
         /\ Len(s.enum) = 0
         /\ Len(s.oneOf) = 0
         /\ Len(s.anyOf) = 0
         /\ Len(s.allOf) = 0
         /\ s.ap = "absent"

\* The loop of getSingleRefTypeNameIfAllOthersEmpty from entry i on, with
\* refTypeName = <<>> for null.  The result is <<>> for null.
RECURSIVE SingleRefLoop(_, _, _)
SingleRefLoop(list, i, refTypeName) ==
    IF i > Len(list) THEN refTypeName
    ELSE IF isRef(list[i])
    THEN LET typeName == extractTypeNameFromRef(list[i].ref[1])
         IN  IF Len(refTypeName) = 1 /\ refTypeName[1] # ""
                  /\ refTypeName[1] # typeName
             THEN <<>>
             ELSE SingleRefLoop(list, i + 1, <<typeName>>)
    ELSE IF ~isEmptySchema(list[i]) THEN <<>>
    ELSE SingleRefLoop(list, i + 1, refTypeName)

getSingleRefTypeNameIfAllOthersEmpty(list) == SingleRefLoop(list, 1, <<>>)

\* if (singleRefType): null and the empty string are falsy
IsTruthyName(opt) == Len(opt) = 1 /\ opt[1] # ""

generatePrimitiveType(s) ==
    IF Len(s.type) = 0 THEN "undefined"
    ELSE CASE s.type[1] = "string" -> "string"
           [] s.type[1] \in {"number", "integer"} -> "number"
           [] s.type[1] = "boolean" -> "boolean"
           [] OTHER -> "undefined"

\* Mutant: only the first single quote of a string value is escaped.
EnumLiteral_FirstQuoteOnly(v) ==
    LET at == IndexOf("'", v.text, 1)
    IN  IF ~v.isString THEN v.text
        ELSE IF at = 0 THEN "'" \o v.text \o "'"
        ELSE "'" \o SubSeq(v.text, 1, at - 1) \o "\\'"
                \o SubSeq(v.text, at + 1, Len(v.text)) \o "'"

\* An enum value is [isString, text]: text is the string itself, or
\* String(v) for a value that is not a string.
EnumLiteral(v) ==
    IF v.isString THEN "'" \o ReplaceAll(v.text, "'", "\\'") \o "'" ELSE v.text

Keys(s) == [i \in 1..Len(s.properties[1]) |-> s.properties[1][i].key]

\* !schema.properties || Object.keys(schema.properties).length === 0
NoProperties(s) == Len(s.properties) = 0 \/ Len(s.properties[1]) = 0

\* The scan of findNamedSchemaByShape over components.schemas from entry i
\* on; targetKeys and candidateKeys are sorted and compared position by
\* position, which for distinct keys is equality of the key sets.
RECURSIVE ShapeScan(_, _, _)
ShapeScan(targetKeys, entries, i) ==
    IF i > Len(entries) THEN <<>>
    ELSE LET candidate == entries[i].value
         IN  IF Len(candidate.properties) = 0
             THEN ShapeScan(targetKeys, entries, i + 1)
             ELSE LET candidateKeys == Keys(candidate)
                  IN  IF /\ Len(candidateKeys) = Len(targetKeys)
                         /\ Range(candidateKeys) = Range(targetKeys)
                      THEN <<entries[i].name>>
                      ELSE ShapeScan(targetKeys, entries, i + 1)

\* Mutant: a candidate matches when it has as many properties as the target.
findNamedSchemaByShape_ByCount(s, sp) ==
    LET hits == {k \in 1..Len(sp.schemas) :
                    /\ Len(sp.schemas[k].value.properties) = 1
                    /\ Len(Keys(sp.schemas[k].value)) = Len(Keys(s))}
    IN  IF NoProperties(s) \/ hits = {} THEN <<>>
        ELSE <<sp.schemas[CHOOSE k \in hits : \A h \in hits : k <= h].name>>

findNamedSchemaByShape(s, sp) ==
    IF NoProperties(s) THEN <<>> ELSE ShapeScan(Keys(s), sp.schemas, 1)

IsIdentStart(c) == Includes(UpperChars, c) \/ Includes(LowerChars, c) \/ c \in {"_", "$"}
IsIdentPart(c) == IsIdentStart(c) \/ Includes(DigitChars, c)

\* /^[a-zA-Z_$][a-zA-Z0-9_$]*$/.test(key) ? key : `'${key}'`
SafeKey(key) ==
    IF /\ key # ""
       /\ IsIdentStart(Head(key))
       /\ \A i \in 2..Len(key) : IsIdentPart(SubSeq(key, i, i))
    THEN key
    ELSE "'" \o key \o "'"

PropertyComment(value) ==
    IF ~isRef(value) /\ Len(value.description) = 1 /\ value.description[1] # ""
    THEN "  /** " \o value.description[1] \o " */\n"
    ELSE ""

IsRequired(s, key) ==
    Len(s.required) = 1 /\ \E i \in 1..Len(s.required[1]) : s.required[1][i] = key

\* Mutant: every property is emitted as optional.
OptionalMarker_AlwaysOptional(s, key) == "?"

OptionalMarker(s, key) == IF IsRequired(s, key) THEN "" ELSE "?"

\* Mutant: a nullable type is united with undefined.
NullableOf_Undefined(baseType) == baseType \o " | undefined"

\* `${baseType} | null`
NullableOf(baseType) == baseType \o " | null"

\* Mutant: the whole reference string is returned.
RefFallback_WholeRef(ref) == ref

\* The name returned for a reference that did not resolve to a schema.
RefFallback(ref) == LET refParts == Split(ref, "/") IN refParts[Len(refParts)]

RECURSIVE schemaToTypeScript(_, _, _)
RECURSIVE generateObjectType(_, _, _)

\* The map callback of the oneOf, anyOf and allOf branches.
BranchType(s, sp, d) ==
    IF isRef(s)
    THEN LET resolved == resolveRef(s.ref[1], sp)
         IN  IF Len(resolved) = 1 /\ HasTypeKey(resolved[1])
             THEN schemaToTypeScript(resolved[1], sp, d + 1)
             ELSE extractTypeNameFromRef(s.ref[1])
    ELSE schemaToTypeScript(s, sp, d + 1)

\* Mutant: the joined branches are not wrapped in parentheses.
JoinBranches_NoParentheses(list, sep, sp, d) ==
    LET types == [i \in 1..Len(list) |-> BranchType(list[i], sp, d)]
    IN  IF AnyThrown(types) THEN RangeError ELSE Join(types, sep)

\* The union or intersection of the compiled branches, in parentheses.
JoinBranches(list, sep, sp, d) ==
    LET types == [i \in 1..Len(list) |-> BranchType(list[i], sp, d)]
    IN  IF AnyThrown(types) THEN RangeError
        ELSE "(" \o Join(types, sep) \o ")"

\* Mutant: the list is always joined, never collapsed.
ListType_NoCollapse(list, sep, sp, d) == JoinBranches(list, sep, sp, d)

\* oneOf, anyOf and allOf: collapse to the single reference, or join.
ListType(list, sep, sp, d) ==
    LET singleRefType == getSingleRefTypeNameIfAllOthersEmpty(list)
    IN  IF IsTruthyName(singleRefType) THEN singleRefType[1]
        ELSE JoinBranches(list, sep, sp, d)

\* isRef(x) ? extractTypeNameFromRef(x.$ref) : schemaToTypeScript(x, ...)
NameOrType(x, sp, d) ==
    IF isRef(x) THEN extractTypeNameFromRef(x.ref[1])
    ELSE schemaToTypeScript(x, sp, d + 1)

\* propType of generateObjectType's loop
PropertyType(value, sp, d) ==
    IF isRef(value) THEN extractTypeNameFromRef(value.ref[1])
    ELSE LET matchedNamedSchema == findNamedSchemaByShape(value, sp)
         IN  IF IsTruthyName(matchedNamedSchema) THEN matchedNamedSchema[1]
             ELSE schemaToTypeScript(value, sp, d + 1)

\* One entry of the properties array, for the i-th property.
PropertyLine(s, i, propType) ==
    LET key == s.properties[1][i].key
        value == s.properties[1][i].value
    IN  PropertyComment(value) \o "  " \o SafeKey(key) \o OptionalMarker(s, key)
            \o ": " \o propType \o ";"

schemaToTypeScript(s, sp, d) ==
    IF d > MaxCallDepth THEN RangeError
    ELSE IF isRef(s)
    THEN LET resolved == resolveRef(s.ref[1], sp)
         IN  IF Len(resolved) = 1 /\ HasTypeKey(resolved[1])
             THEN schemaToTypeScript(resolved[1], sp, d + 1)
             ELSE RefFallback(s.ref[1])
    ELSE IF Truthy(s.nullable)
    THEN LET baseType ==
                schemaToTypeScript([s EXCEPT !.nullable = <<FALSE>>], sp, d + 1)
         IN  IF baseType = RangeError THEN RangeError ELSE NullableOf(baseType)
    ELSE IF NonEmptyList(s.oneOf) THEN ListType(s.oneOf[1], " | ", sp, d)
    ELSE IF NonEmptyList(s.anyOf) THEN ListType(s.anyOf[1], " | ", sp, d)
    ELSE IF NonEmptyList(s.allOf) THEN ListType(s.allOf[1], " & ", sp, d)
    ELSE IF NonEmptyList(s.enum)
    THEN Join([i \in 1..Len(s.enum[1]) |-> EnumLiteral(s.enum[1][i])], " | ")
    ELSE IF Len(s.type) = 1 /\ s.type[1] = "array"
    THEN IF Len(s.items) = 0 THEN "undefined[]"
         ELSE LET itemType == NameOrType(s.items[1], sp, d)
              IN  IF itemType = RangeError THEN RangeError ELSE itemType \o "[]"
    ELSE IF \/ Len(s.type) = 1 /\ s.type[1] = "object"
            \/ Len(s.type) = 0 /\ Len(s.properties) = 1
    THEN generateObjectType(s, sp, d + 1)
    ELSE generatePrimitiveType(s)

generateObjectType(s, sp, d) ==
    IF d > MaxCallDepth THEN RangeError
    ELSE IF NoProperties(s)
    THEN CASE s.ap = "false" -> "Record<string, never>"
           [] s.ap = "true" -> "Record<string, undefined>"
           [] s.ap = "schema" ->
                LET valueType == NameOrType(s.apSchema[1], sp, d)
                IN  IF valueType = RangeError THEN RangeError
                    ELSE "Record<string, " \o valueType \o ">"
           [] OTHER -> "Record<string, undefined>"
    ELSE LET propTypes ==
                [i \in 1..Len(s.properties[1]) |->
                    PropertyType(s.properties[1][i].value, sp, d)]
             declared ==
                [i \in 1..Len(s.properties[1]) |-> PropertyLine(s, i, propTypes[i])]
             valueType ==
                IF s.ap = "schema" THEN NameOrType(s.apSchema[1], sp, d) ELSE ""
             properties ==
                CASE s.ap = "true" -> Append(declared, "  [key: string]: undefined;")
                  [] s.ap = "schema" ->
                        Append(declared, "  [key: string]: " \o valueType \o ";")
                  [] OTHER -> declared
         IN  IF AnyThrown(propTypes) \/ valueType = RangeError THEN RangeError
             ELSE "{\n" \o Join(properties, "\n") \o "\n}"

\* Mutant: nullable is cleared on the node itself (schema.nullable = false).
NodeAfterCompile_ClearsNullable(s) ==
    IF ~isRef(s) /\ Truthy(s.nullable) THEN [s EXCEPT !.nullable = <<FALSE>>] ELSE s

\* The node the caller holds once schemaToTypeScript has returned: the call
\* assigns to no key of it; nullable is cleared on a copy made by the
\* spread { ...schema, nullable: false }.
NodeAfterCompile(s) == s

\* schemaToTypeScript(schema, spec, context) is called
Compile ==
    /\ pc = "compile"
    /\ out' = schemaToTypeScript(schema, spec, 0)
    /\ schema' = NodeAfterCompile(schema)
    /\ pc' = "compiled"
    /\ UNCHANGED <<pathVars, spec, pointer, target, urlVars, depsVars, genVars, configVars, normVars>>

(***************************************************************************)
(* Documents given to the dependency extractor: two named schemas, each    *)
(* with one of the bodies below, over references to A, B and to a schema   *)
(* that does not exist.                                                    *)
(***************************************************************************)
RefTargets == {"A", "B", "Missing"}

DepsBodies ==
    {Typed("string")}
    \cup {SchemaRef(n) : n \in RefTargets}
    \cup {ObjectOf(<<Prop("p", SchemaRef(n))>>) : n \in RefTargets}
    \cup {[NoKeys EXCEPT !.properties = <<<<Prop("p", SchemaRef(n))>>>>] :
            n \in RefTargets}
    \cup {ArrayOf(SchemaRef(n)) : n \in RefTargets}
    \cup {[Typed("object") EXCEPT !.ap = "schema", !.apSchema = <<SchemaRef(n)>>] :
            n \in RefTargets}
    \cup {[Typed("object") EXCEPT !.anyOf = <<<<SchemaRef(n), SchemaRef(m)>>>>] :
            n \in RefTargets, m \in RefTargets}
    \cup {ObjectOf(<<Prop("p", SchemaRef(n)), Prop("q", ArrayOf(SchemaRef(m)))>>) :
            n \in RefTargets, m \in RefTargets}

DepsSpecs ==
    {[EmptySpec EXCEPT !.schemas = <<Entry("A", a), Entry("B", b)>>] :
        a \in DepsBodies, b \in DepsBodies}

InitDeps ==
    /\ NothingGenerated
    /\ NothingBuilt
    /\ NothingMerged
    /\ NothingNormalized
    /\ pointer = ""
    /\ pc = "extract"
    /\ spec \in DepsSpecs
    /\ schema \in {spec.schemas[1].value, spec.schemas[2].value,
                   Ref("other.json#/components/schemas/A")}
    /\ stack = <<>>
    /\ deps = <<>>
    /\ out = ""
    /\ path = ""
    /\ prefixSkip = 0
    /\ nameOut = ""
    /\ folderOut = ""

NextDeps ==
    \/ ExtractStart
    \/ TraverseCall
    \/ TraverseOverflow
    \/ TraverseReturn
    \/ ExtractReturn

SpecDeps == InitDeps /\ [][NextDeps]_vars

\* Named schema n of the document holds a reference to named schema m.
HoldsRefTo(sp, n, m) ==
    LET body == Lookup(sp.schemas, n)
    IN  /\ Len(body) = 1
        /\ ~isRef(body[1])
        /\ HasTypeKey(body[1])
        /\ \E i \in 1..Len(TraverseCalls(body[1], sp)) :
              TraverseCalls(body[1], sp)[i] = SchemaRef(m)

CycleAB == HoldsRefTo(spec, "A", "B") /\ HoldsRefTo(spec, "B", "A")

\* C1: extractDependencies terminates on a document in which named schema A
\* holds a reference to B and B a reference back to A: extracting from A
\* never exhausts the call stack, and it returns exactly {A, B}.
C1_CycleTerminates ==
    CycleAB /\ schema = spec.schemas[1].value =>
        /\ pc # "RangeError"
        /\ pc = "extracted" => Range(deps) = {"A", "B"}

(***************************************************************************)
(* Inputs of the namer: the paths the documentation names, and every       *)
(* concatenation of at most MaxPathTokens tokens.                          *)
(***************************************************************************)
PathTokens == {"/", "a", "B-", "{", "}", " "}

RECURSIVE TokenPaths(_)
TokenPaths(n) ==
    IF n = 0 THEN {""}
    ELSE LET shorter == TokenPaths(n - 1)
         IN  shorter \cup {s \o t : s \in shorter, t \in PathTokens}

ExamplePaths ==
    {"/api/v1/auth/login", "/", "/api/v1/users/{id}", "/api/v1/health"}

NamerPaths == ExamplePaths \cup TokenPaths(MaxPathTokens)

(***************************************************************************)
(* The namer run on one path.                                              *)
(***************************************************************************)
InitPath ==
    /\ NothingGenerated
    /\ NothingBuilt
    /\ NothingMerged
    /\ NothingNormalized
    /\ pointer = ""
    /\ pc = "call"
    /\ path \in NamerPaths
    /\ prefixSkip \in 0..MaxSkip
    /\ nameOut = ""
    /\ folderOut = ""
    /\ spec = EmptySpec
    /\ schema = NoKeys
    /\ stack = <<>>
    /\ deps = <<>>
    /\ out = ""

\* endpoint-generator.ts calls the namer for an operation's path
CallNamer ==
    /\ pc = "call"
    /\ nameOut' = pathToEndpointName(path, prefixSkip)
    /\ pc' = "named"
    /\ UNCHANGED <<path, prefixSkip, folderOut, docVars, urlVars, depsVars, out, genVars, configVars, normVars>>

\* generateApiEndpoints calls the folder resolver for an operation's path
CallFolder ==
    /\ pc = "call"
    /\ folderOut' = getEndpointFolderPath(path, prefixSkip)
    /\ pc' = "foldered"
    /\ UNCHANGED <<path, prefixSkip, nameOut, docVars, urlVars, depsVars, out, genVars, configVars, normVars>>

NextPath == CallNamer \/ CallFolder

SpecPath == InitPath /\ [][NextPath]_vars

(***************************************************************************)
(* The reference algorithm of the namer, written from its description and  *)
(* independently of the definitions above.                                 *)
(***************************************************************************)
RECURSIVE RefFirstNonSlash(_, _)
RefFirstNonSlash(s, i) ==
    IF i <= Len(s) /\ SubSeq(s, i, i) = "/" THEN RefFirstNonSlash(s, i + 1) ELSE i

RECURSIVE RefLastNonSlash(_, _)
RefLastNonSlash(s, i) ==
    IF i >= 1 /\ SubSeq(s, i, i) = "/" THEN RefLastNonSlash(s, i - 1) ELSE i

RefStrip(s) == SubSeq(s, RefFirstNonSlash(s, 1), RefLastNonSlash(s, Len(s)))

RECURSIVE RefSplit(_)
RefSplit(s) ==
    LET i == IndexOf("/", s, 1)
    IN  IF i = 0 THEN <<s>>
        ELSE <<SubSeq(s, 1, i - 1)>> \o RefSplit(SubSeq(s, i + 1, Len(s)))

RefIsParam(seg) == \E i \in 1..Len(seg) : SubSeq(seg, i, i) \in {"{", "}"}

RefDropPrefix(segs, skip) ==
    [i \in 1..(IF Len(segs) > 2 * skip THEN Len(segs) - 2 * skip ELSE 0)
        |-> segs[i + 2 * skip]]

RefSnake(segs, sep) == ToLowerCase(ReplaceAll(Join(segs, sep), "-", "_"))

\* As the claim words it: a path that is all '/' has no segment (its example
\* "/" gives "root"); otherwise every piece between two '/' is a segment.
RefSegmentsAsClaimed(p, skip) ==
    IF RefStrip(p) = "" THEN <<>>
    ELSE RefDropPrefix(
            SelectSeq(RefSplit(RefStrip(p)), LAMBDA g : ~RefIsParam(g)), skip)

\* Empty segments are dropped together with the parameter segments.
RefSegments(p, skip) ==
    RefDropPrefix(
        SelectSeq(RefSplit(RefStrip(p)), LAMBDA g : g # "" /\ ~RefIsParam(g)), skip)

RefName(segs) == IF Len(segs) = 0 THEN "root" ELSE RefSnake(segs, "_")

NamerExamplesHold ==
    /\ path = "/api/v1/auth/login" /\ prefixSkip = 1 => nameOut = "auth_login"
    /\ path = "/api/v1/auth/login" /\ prefixSkip = 0 => nameOut = "api_v1_auth_login"
    /\ path = "/" /\ prefixSkip = 0 => nameOut = "root"
    /\ path = "/api/v1/users/{id}" /\ prefixSkip = 1 => nameOut = "users"

\* C5 (as claimed): pathToEndpointName equals the reference algorithm that
\* strips the outer '/', splits on '/', drops the segments containing a brace
\* and then the first 2 x prefixSkip segments, for every path.
C5_NameEqualsClaimedReference ==
    pc = "named" =>
        /\ nameOut = RefName(RefSegmentsAsClaimed(path, prefixSkip))
        /\ NamerExamplesHold

\* C5 (amended): pathToEndpointName returns "root" for a path that is empty
\* or only whitespace; for every other path it equals the reference algorithm
\* in which empty segments are dropped along with the segments containing a
\* brace, before the first 2 x prefixSkip segments are dropped.  The four
\* documented examples hold.
C5_NameEqualsReference ==
    pc = "named" =>
        /\ nameOut = (IF Trim(path) = "" THEN "root"
                      ELSE RefName(RefSegments(path, prefixSkip)))
        /\ NamerExamplesHold

C5_Witness ==
    /\ pc = "named"
    /\ path = "/api/v1/users/{id}"
    /\ prefixSkip = 1
    /\ nameOut = "users"

\* C6: getEndpointFolderPath returns the namer's surviving segments (same
\* parameter-segment removal, same 2 x prefixSkip prefix drop) except the
\* last, joined by '/', hyphens replaced by underscores and lowercased, and
\* the empty string when at most one segment survives.
C6_FolderEqualsReference ==
    pc = "foldered" =>
        /\ LET segs == RefSegments(path, prefixSkip)
           IN  folderOut = (IF Len(segs) <= 1 THEN ""
                            ELSE RefSnake(SubSeq(segs, 1, Len(segs) - 1), "/"))
        /\ path = "/api/v1/auth/login" /\ prefixSkip = 1 => folderOut = "auth"
        /\ path = "/api/v1/health" /\ prefixSkip = 1 => folderOut = ""

C6_Witness ==
    /\ pc = "foldered"
    /\ path = "/api/v1/auth/login"
    /\ prefixSkip = 1
    /\ folderOut = "auth"

(***************************************************************************)
(* Inputs of the compiler: two documents, and the nodes built below.       *)
(***************************************************************************)
MaxListLen == 3
MaxProps == 2

Described(s) == [s EXCEPT !.description = <<"d">>]
Nullable(s) == [s EXCEPT !.nullable = <<TRUE>>]
EnumOf(values) == [Typed("string") EXCEPT !.enum = <<values>>]
StringValue(t) == [isString |-> TRUE, text |-> t]
OtherValue(t) == [isString |-> FALSE, text |-> t]

CompilerSpecs ==
    {EmptySpec,
     [EmptySpec EXCEPT !.schemas =
        <<Entry("A", ObjectOf(<<Prop("id", Typed("integer")),
                                Prop("name", Typed("string"))>>)),
          Entry("B", Typed("string")),
          Entry("Shape", [NoKeys EXCEPT
                            !.properties = <<<<Prop("x", Typed("boolean"))>>>>]),
          Entry("Twin", ObjectOf(<<Prop("x", Typed("number"))>>))>>]}

RECURSIVE SeqsUpTo(_, _)
SeqsUpTo(S, n) ==
    IF n = 0 THEN {<<>>}
    ELSE LET shorter == SeqsUpTo(S, n - 1)
         IN  shorter \cup {Append(q, x) : q \in shorter, x \in S}

ListEntries ==
    {SchemaRef("A"), SchemaRef("Missing"), NoKeys, Typed("null"), Typed("string"),
     Described(NoKeys)}

Lists == SeqsUpTo(ListEntries, MaxListLen) \ {<<>>}

\* Nodes that carry the list beside keywords of lower rank.
ListBases ==
    {NoKeys, [Typed("object") EXCEPT !.enum = <<<<StringValue("a")>>>>],
     [NoKeys EXCEPT !.oneOf = <<<<>>>>]}

\* Lists whose entries carry each kind of structure, or two references.
StructuredLists ==
    {<<SchemaRef("A"), SchemaRef("B")>>,
     <<SchemaRef("B"), NoKeys, SchemaRef("Missing")>>,
     <<SchemaRef("A"), ObjectOf(<<Prop("x", Typed("string"))>>)>>,
     <<[NoKeys EXCEPT !.properties = <<<<>>>>], SchemaRef("B")>>,
     <<ArrayOf(Typed("string")), SchemaRef("B")>>,
     <<EnumOf(<<StringValue("a"), OtherValue("3")>>), NoKeys>>,
     <<SchemaRef("Missing"), [NoKeys EXCEPT !.ap = "true"]>>,
     <<SchemaRef("B"),
       [NoKeys EXCEPT !.anyOf = <<<<Typed("string"), Typed("number")>>>>]>>,
     <<[Typed("null") EXCEPT !.enum = <<<<>>>>], SchemaRef("A")>>}

StructuredListNodes ==
    {[NoKeys EXCEPT !.oneOf = <<l>>] : l \in StructuredLists}
    \cup {[NoKeys EXCEPT !.anyOf = <<l>>] : l \in StructuredLists}
    \cup {[Typed("string") EXCEPT !.allOf = <<l>>] : l \in StructuredLists}

ListNodes ==
    {[b EXCEPT !.oneOf = <<l>>] : b \in ListBases, l \in Lists}
    \cup {[b EXCEPT !.anyOf = <<l>>] : b \in ListBases, l \in Lists}
    \cup {[b EXCEPT !.allOf = <<l>>] : b \in ListBases, l \in Lists}
    \cup {[NoKeys EXCEPT !.oneOf = <<<<Typed("string"), Typed("number")>>>>,
                        !.anyOf = <<<<SchemaRef("A"), NoKeys>>>>]}
    \cup StructuredListNodes

PropertyKeys == {"id", "my-key", "x"}

PropertyValues_ ==
    {Typed("integer"), SchemaRef("A"), Nullable(Typed("string")),
     Described(Typed("string")), ObjectOf(<<Prop("x", Typed("string"))>>),
     ObjectOf(<<Prop("q", Typed("number"))>>)}

DistinctKeys(props) ==
    \A i, j \in 1..Len(props) : i # j => props[i].key # props[j].key

PropertyLists ==
    {props \in SeqsUpTo({Prop(k, v) : k \in PropertyKeys, v \in PropertyValues_},
                        MaxProps) : DistinctKeys(props)}

RequiredLists == {<<>>, <<<<"id">>>>, <<<<"x", "my-key", "zz">>>>}

ObjectNodes ==
    {[NoKeys EXCEPT !.type = t, !.properties = <<props>>, !.required = r,
                    !.ap = a[1], !.apSchema = a[2]] :
        t \in {<<>>, <<"object">>}, props \in PropertyLists, r \in RequiredLists,
        a \in {<<"absent", <<>>>>, <<"false", <<>>>>, <<"true", <<>>>>,
               <<"schema", <<Typed("string")>>>>}}

OtherNodes ==
    {NoKeys, Typed("string"), Typed("integer"), Typed("boolean"), Typed("null"),
     Typed("object"), Typed("array"), ArrayOf(Typed("string")),
     ArrayOf(SchemaRef("A")), ArrayOf(Nullable(Typed("number"))),
     EnumOf(<<StringValue("a"), StringValue("it's"), OtherValue("3")>>),
     [Typed("array") EXCEPT !.enum = <<<<OtherValue("1")>>>>],
     [Typed("string") EXCEPT !.enum = <<<<StringValue("'a''"), OtherValue("true"),
                                         StringValue(""), OtherValue("null")>>>>],
     [Typed("object") EXCEPT !.nullable = <<FALSE>>],
     [Typed("string") EXCEPT !.properties = <<<<Prop("x", Typed("number"))>>>>],
     ObjectOf(<<Prop("p", ObjectOf(<<Prop("name", Typed("boolean")),
                                     Prop("id", Typed("string"))>>))>>),
     ObjectOf(<<Prop("p", ObjectOf(<<Prop("id", Typed("string"))>>)),
                Prop("q", Nullable([NoKeys EXCEPT
                            !.properties = <<<<Prop("x", Typed("string"))>>>>]))>>),
     [Typed("array") EXCEPT !.properties = <<<<Prop("x", Typed("number"))>>>>],
     [ArrayOf(Typed("string")) EXCEPT !.properties = <<<<Prop("id", Typed("number"))>>>>,
                                     !.required = <<<<"id">>>>]}

PlainNodes == ListNodes \cup ObjectNodes \cup OtherNodes

CompilerNodes ==
    PlainNodes \cup {Nullable(n) : n \in PlainNodes}
        \cup {SchemaRef("A"), SchemaRef("B"), SchemaRef("Shape"), SchemaRef("Missing"),
              Ref("other.json#/components/schemas/A"), Ref("#/components/headers/A"),
              Ref("#/paths/A"), Ref("#/definitions/B"), Ref("#/definitions/Missing"),
              Ref("#/components/schemas"), Ref("#/A"), Ref("A")}

InitCompile ==
    /\ NothingGenerated
    /\ NothingBuilt
    /\ NothingMerged
    /\ NothingNormalized
    /\ pointer = ""
    /\ pc = "compile"
    /\ spec \in CompilerSpecs
    /\ schema \in CompilerNodes
    /\ out = ""
    /\ stack = <<>>
    /\ deps = <<>>
    /\ path = ""
    /\ prefixSkip = 0
    /\ nameOut = ""
    /\ folderOut = ""

NextCompile == Compile

SpecCompile == InitCompile /\ [][NextCompile]_vars

(***************************************************************************)
(* What the claims about the compiler speak of, stated on the node.        *)
(***************************************************************************)
Present(opt) == opt # <<>>

\* The list that decides the node's form: the first non-empty one in the
\* order oneOf, anyOf, allOf; <<>> when there is none.
DecidingList(s) ==
    IF Present(s.oneOf) /\ s.oneOf[1] # <<>> THEN s.oneOf
    ELSE IF Present(s.anyOf) /\ s.anyOf[1] # <<>> THEN s.anyOf
    ELSE IF Present(s.allOf) /\ s.allOf[1] # <<>> THEN s.allOf
    ELSE <<>>

TrailingName(ref) == LET parts == RefSplit(ref) IN parts[Len(parts)]

ClaimedEmpty(e) ==
    /\ ~Present(e.ref)
    /\ e.type \in {<<>>, <<"null">>}
    /\ ~Present(e.properties) /\ ~Present(e.items) /\ ~Present(e.enum)
    /\ ~Present(e.oneOf) /\ ~Present(e.anyOf) /\ ~Present(e.allOf)
    /\ e.ap = "absent"

\* Entry i of the list is its one reference and every other entry is empty.
OneRefAt(list, i) ==
    /\ Present(list[i].ref)
    /\ TrailingName(list[i].ref[1]) # ""
    /\ \A j \in 1..Len(list) : j # i => ClaimedEmpty(list[j])

\* C2: for a node that is not nullable and whose deciding list (oneOf, anyOf
\* or allOf) consists of exactly one $ref entry, with a non-empty trailing
\* name, plus N empty entries, schemaToTypeScript returns exactly the
\* reference's trailing name: no parentheses, no union or intersection.
C2_CollapsesToReference ==
    pc = "compiled" /\ ~Present(schema.ref) /\ schema.nullable # <<TRUE>> =>
        \A i \in 1..Len(ListOf(DecidingList(schema))) :
            OneRefAt(DecidingList(schema)[1], i) =>
                out = TrailingName(DecidingList(schema)[1][i].ref[1])

C2_Witness ==
    /\ pc = "compiled"
    /\ schema = [NoKeys EXCEPT !.anyOf = <<<<NoKeys, SchemaRef("A"), Typed("null")>>>>]
    /\ spec # EmptySpec
    /\ out = "A"

\* C3: for every non-reference node with nullable set to true, the result is
\* the result for the same node without nullable, followed by " | null".
C3_NullableAppendsNull ==
    pc = "compiled" /\ ~Present(schema.ref) /\ schema.nullable = <<TRUE>> =>
        out = schemaToTypeScript([schema EXCEPT !.nullable = <<>>], spec, 0)
                \o " | null"

C3_Witness ==
    /\ pc = "compiled"
    /\ schema = Nullable([NoKeys EXCEPT
                    !.oneOf = <<<<Typed("string"), SchemaRef("Missing")>>>>])
    /\ out = "(string | Missing) | null"

\* The node is compiled as an object with declared properties: it is no
\* reference, not nullable, has no non-empty oneOf, anyOf, allOf or enum, is
\* typed object (or untyped), and its property mapping is not empty.
ObjectWithProperties(s) ==
    /\ ~Present(s.ref)
    /\ s.nullable # <<TRUE>>
    /\ DecidingList(s) = <<>>
    /\ s.enum \in {<<>>, <<<<>>>>}
    /\ s.type \in {<<>>, <<"object">>}
    /\ Present(s.properties)
    /\ s.properties[1] # <<>>

ClaimedMarker(s, key) ==
    IF Present(s.required) /\ key \in Range(s.required[1]) THEN "" ELSE "?"

\* The declaration lines the claim expects, in the mapping's order.
ClaimedLines(s, sp) ==
    [i \in 1..Len(s.properties[1]) |->
        LET p == s.properties[1][i]
        IN  PropertyComment(p.value) \o "  " \o SafeKey(p.key)
                \o ClaimedMarker(s, p.key) \o ": " \o PropertyType(p.value, sp, 1)
                \o ";"]

\* C4: an object schema with a non-empty property mapping is emitted as "{",
\* then one declaration per property in the mapping's order, a property named
\* in required without the marker '?' and every other property (also when
\* required is absent) with it.
C4_RequiredDecidesMarker ==
    pc = "compiled" /\ ObjectWithProperties(schema) =>
        StartsWith(out, "{\n" \o Join(ClaimedLines(schema, spec), "\n") \o "\n")

C4_Witness ==
    /\ pc = "compiled"
    /\ ObjectWithProperties(schema)
    /\ Keys(schema) = <<"x", "id">>
    /\ schema.required = <<<<"id">>>>
    /\ StartsWith(out, "{\n  x?: number;\n  id: ")


(***************************************************************************)
(* parser.ts: resolveSchema, and schema-generator.ts: generateSchemaType.  *)
(* A thrown Error is the result ResolveError.                              *)
(***************************************************************************)
ResolveError == "<Error: Failed to resolve reference>"

\* The result is <<>> when resolveSchema throws.
resolveSchema(s, sp) ==
    IF isRef(s)
    THEN LET resolved == resolveRef(s.ref[1], sp)
         IN  IF Len(resolved) = 0 \/ ~HasTypeKey(resolved[1]) THEN <<>> ELSE resolved
    ELSE <<s>>

\* description ? `/**\n * ${description.split('\n').join('\n * ')}\n */\n` : ''
DescriptionComment(description) ==
    IF Len(description) = 1 /\ description[1] # ""
    THEN "/**\n * " \o Join(Split(description[1], "\n"), "\n * ") \o "\n */\n"
    ELSE ""

generateSchemaType(name, s, sp) ==
    LET resolved == resolveSchema(s, sp)
    IN  IF Len(resolved) = 0 THEN ResolveError
        ELSE LET typeCode == schemaToTypeScript(resolved[1], sp, 0)
             IN  IF typeCode = RangeError THEN RangeError
                 ELSE DescriptionComment(resolved[1].description)
                        \o "export type " \o name \o " = " \o typeCode \o ";"

(***************************************************************************)
(* dependencies.ts: extractDependencies as generateTypes calls it, the     *)
(* whole walk at once.  The result is the Set deps in insertion order, or  *)
(* DepsOverflow when the walk exhausts the call stack.                     *)
(***************************************************************************)
DepsOverflow == <<RangeError>>

RECURSIVE traverse(_, _, _, _)
RECURSIVE TraverseEach(_, _, _, _)

traverse(s, sp, acc, d) ==
    IF acc = DepsOverflow \/ d > MaxCallDepth THEN DepsOverflow
    ELSE TraverseEach(TraverseCalls(s, sp), sp, DepsOnEnter(acc, s), d + 1)

TraverseEach(nodes, sp, acc, d) ==
    IF acc = DepsOverflow THEN DepsOverflow
    ELSE IF Len(nodes) = 0 THEN acc
    ELSE TraverseEach(Tail(nodes), sp, traverse(nodes[1], sp, acc, d), d)

extractDependencies(s, sp) == traverse(s, sp, <<>>, 1)

(***************************************************************************)
(* endpoint-generator.ts: generateEndpointTypes.  A path item of the       *)
(* document is its path, the set of methods that carry an operation and,   *)
(* for the methods whose operation has a request body or responses, the    *)
(* operation; spec.paths keeps the items in the order of Object.entries.   *)
(* A request body or response is its $ref, or its description and the      *)
(* schema of content['application/json'], each of them optional.  The      *)
(* operations of the model have no parameters and no description.          *)
(***************************************************************************)
PathItem(p, ms) == [path |-> p, methods |-> ms, details |-> <<>>]

Content(description, json) == [ref |-> <<>>, description |-> description, json |-> json]
ContentRef(r) == [ref |-> <<r>>, description |-> <<>>, json |-> <<>>]

Operation(body, responses) == [requestBody |-> body, responses |-> responses]

\* pathItem[method]
OperationAt(item, method) ==
    LET given == Lookup(item.details, method)
    IN  IF Len(given) = 1 THEN given[1] ELSE Operation(<<>>, <<>>)

HttpMethods == <<"get", "post", "put", "patch", "delete", "head", "options">>

\* 'content' in resolved && content['application/json']?.schema
HasJsonSchema(obj) == "json" \in DOMAIN obj /\ Len(obj.json) = 1

\* The TypeDefinition built from the schema of a request body or response.
BodyDefinition(typeName, description, s, sp) ==
    LET typeCode ==
            IF isRef(s) THEN extractTypeNameFromRef(s.ref[1])
            ELSE schemaToTypeScript(s, sp, 0)
    IN  [name |-> typeName,
         code |-> IF typeCode = RangeError THEN RangeError
                  ELSE DescriptionComment(description)
                        \o "export type " \o typeName \o " = " \o typeCode \o ";",
         dependencies |-> IF isRef(s) THEN <<extractTypeNameFromRef(s.ref[1])>>
                          ELSE <<>>]

\* The result is <<>> for undefined.
generateRequestBodyType(operation, operationId, sp) ==
    IF Len(operation.requestBody) = 0 \/ isRef(operation.requestBody[1]) THEN <<>>
    ELSE LET requestBody == operation.requestBody[1]
         IN  IF HasJsonSchema(requestBody)
             THEN <<BodyDefinition(operationId \o "_RequestBody",
                                   requestBody.description, requestBody.json[1], sp)>>
             ELSE <<>>

\* The entry of `responses` for one status code, <<>> when none is set.
ResponseType(statusCode, response, operationId, sp) ==
    LET typeName == operationId \o "_" \o statusCode \o "Response"
        resolved == IF isRef(response) THEN resolveRef(response.ref[1], sp)
                    ELSE <<response>>
    IN  IF Len(resolved) = 1 /\ HasJsonSchema(resolved[1])
        THEN <<Entry(statusCode,
                     BodyDefinition(typeName, resolved[1].description,
                                    resolved[1].json[1], sp))>>
        ELSE <<>>

RECURSIVE generateResponseTypes(_, _, _)
generateResponseTypes(responses, operationId, sp) ==
    IF Len(responses) = 0 THEN <<>>
    ELSE ResponseType(responses[1].name, responses[1].value, operationId, sp)
            \o generateResponseTypes(Tail(responses), operationId, sp)

\* The inner loop: one EndpointType per method of the item that is present.
OperationsOf(item, skip, sp) ==
    LET present == SelectSeq(HttpMethods, LAMBDA m : m \in item.methods)
        operationId == pathToEndpointName(item.path, skip)
    IN  [k \in 1..Len(present) |->
            [operationId |-> operationId,
             method |-> present[k],
             path |-> item.path,
             requestBody |->
                generateRequestBodyType(OperationAt(item, present[k]), operationId, sp),
             responses |->
                generateResponseTypes(OperationAt(item, present[k]).responses,
                                      operationId, sp)]]

RECURSIVE EndpointsOf(_, _, _)
EndpointsOf(items, skip, sp) ==
    IF Len(items) = 0 THEN <<>>
    ELSE OperationsOf(items[1], skip, sp) \o EndpointsOf(Tail(items), skip, sp)

generateEndpointTypes(sp, skip) == EndpointsOf(sp.paths, skip, sp)

\* The declarations of an endpoint, request body first.
EndpointDefinitions(endpoint) ==
    endpoint.requestBody
        \o [k \in 1..Len(endpoint.responses) |-> endpoint.responses[k].value]

generateEndpointTypeCode(endpoint) ==
    Join(<<"/**\n * Endpoint: " \o endpoint.path \o "\n */">>
            \o [k \in 1..Len(EndpointDefinitions(endpoint)) |->
                    EndpointDefinitions(endpoint)[k].code],
         "\n\n")

\* dependencies.ts: the Set deps of extractEndpointDependencies
RECURSIVE AddAll(_, _)
AddAll(acc, names) ==
    IF Len(names) = 0 THEN acc ELSE AddAll(SetAdd(acc, names[1]), Tail(names))

RECURSIVE DefinitionDependencies(_, _)
DefinitionDependencies(acc, definitions) ==
    IF Len(definitions) = 0 THEN acc
    ELSE DefinitionDependencies(AddAll(acc, definitions[1].dependencies),
                                Tail(definitions))

extractEndpointDependencies(endpoint) ==
    DefinitionDependencies(<<>>, EndpointDefinitions(endpoint))

(***************************************************************************)
(* index.ts: generateTypes.  The value of an entry is the TypeDefinition   *)
(* and, for an endpoint, the operation it was generated from.  The result  *)
(* is [threw |-> TRUE] when a call of the loops throws.                    *)
(***************************************************************************)
\* Map.prototype.set: an existing key keeps its place and takes the value.
MapSet(entries, key, value) ==
    IF \E k \in 1..Len(entries) : entries[k].name = key
    THEN [k \in 1..Len(entries) |->
            IF entries[k].name = key THEN Entry(key, value) ELSE entries[k]]
    ELSE Append(entries, Entry(key, value))

SchemaDefinition(name, s, sp) ==
    [name |-> name, code |-> generateSchemaType(name, s, sp),
     dependencies |-> extractDependencies(s, sp), path |-> "", method |-> ""]

EndpointDefinition(endpoint) ==
    [name |-> endpoint.operationId, code |-> generateEndpointTypeCode(endpoint),
     dependencies |-> extractEndpointDependencies(endpoint),
     path |-> endpoint.path, method |-> endpoint.method]

RECURSIVE SetSchemaTypes(_, _, _)
SetSchemaTypes(map, schemas, sp) ==
    IF Len(schemas) = 0 THEN map
    ELSE SetSchemaTypes(
            MapSet(map, schemas[1].name,
                   SchemaDefinition(schemas[1].name, schemas[1].value, sp)),
            Tail(schemas), sp)

RECURSIVE SetEndpointTypes(_, _)
SetEndpointTypes(map, endpointTypes) ==
    IF Len(endpointTypes) = 0 THEN map
    ELSE LET endpoint == endpointTypes[1]
             fileName == endpoint.operationId
         IN  SetEndpointTypes(
                MapSet(map, "endpoint:" \o fileName, EndpointDefinition(endpoint)),
                Tail(endpointTypes))

\* A call made for the entry threw.
Threw(definition) ==
    \/ definition.code \in {ResolveError, RangeError}
    \/ definition.dependencies = DepsOverflow

\* A schema compiled inside generateEndpointTypes exhausted the stack.
EndpointThrew(endpoint) ==
    \E k \in 1..Len(EndpointDefinitions(endpoint)) :
        EndpointDefinitions(endpoint)[k].code = RangeError

generateTypes(sp, skip) ==
    LET endpointTypes == generateEndpointTypes(sp, skip)
    IN  IF \/ \E k \in 1..Len(sp.schemas) :
                Threw(SchemaDefinition(sp.schemas[k].name, sp.schemas[k].value, sp))
           \/ \E k \in 1..Len(endpointTypes) : EndpointThrew(endpointTypes[k])
        THEN [threw |-> TRUE, map |-> <<>>]
        ELSE [threw |-> FALSE,
              map |-> SetEndpointTypes(SetSchemaTypes(<<>>, sp.schemas, sp),
                                       endpointTypes)]

(***************************************************************************)
(* api-endpoints-generator.ts: resolveEndpointNames                        *)
(***************************************************************************)
EndpointMeta(endpoint, skip) ==
    [folderPath |-> getEndpointFolderPath(endpoint.path, skip),
     baseName |-> endpoint.operationId,
     method |-> endpoint.method,
     path |-> endpoint.path]

IsParamSegment(segment) ==
    StartsWith(segment, "{") /\ SubSeq(segment, Len(segment), Len(segment)) = "}"

buildParamSuffix(p) ==
    LET segments == SelectSeq(Split(StripSlashes(p), "/"), NonEmptyStr)
        params == SelectSeq(segments, IsParamSegment)
        paramNames ==
            [k \in 1..Len(params) |-> SubSeq(params[k], 2, Len(params[k]) - 1)]
    IN  IF Len(paramNames) = 0 THEN ""
        ELSE IF Len(paramNames) = 1 THEN "by_" \o paramNames[1]
        ELSE "by_" \o Join(paramNames, "_and_")

GroupKey(meta) == meta.folderPath \o "::" \o meta.baseName

\* The key before the uniqueness check.
\* Mutant: a group on one path is suffixed like a group on differing paths.
BaseKey_IgnoresSamePath(meta, samePath) ==
    IF buildParamSuffix(meta.path) # ""
    THEN meta.baseName \o "_" \o buildParamSuffix(meta.path)
    ELSE meta.baseName

BaseKey(meta, samePath) ==
    IF samePath THEN meta.baseName \o "_" \o ToLowerCase(meta.method)
    ELSE IF buildParamSuffix(meta.path) # ""
    THEN meta.baseName \o "_" \o buildParamSuffix(meta.path)
    ELSE meta.baseName

\* while (usedKeys.has(finalKey)) { finalKey = `${key}_${method}_${counter}` ... }
RECURSIVE CounterKey(_, _, _)
CounterKey(withMethod, usedKeys, counter) ==
    LET finalKey == withMethod \o "_" \o ToString(counter)
    IN  IF finalKey \in usedKeys
        THEN CounterKey(withMethod, usedKeys, counter + 1)
        ELSE finalKey

\* Mutant: the method is appended once and the counter loop is left out.
FinalKey_NoCounter(key, method, usedKeys) ==
    IF key \notin usedKeys THEN key ELSE key \o "_" \o ToLowerCase(method)

FinalKey(key, method, usedKeys) ==
    LET withMethod == key \o "_" \o ToLowerCase(method)
    IN  IF key \notin usedKeys THEN key
        ELSE IF withMethod \notin usedKeys THEN withMethod
        ELSE CounterKey(withMethod, usedKeys, 2)

\* Mutant: the keys an earlier run resolved are still taken.
NewUsedKeys_Kept == Range(resolvedNames)

\* const usedKeys = new Set<string>()
NewUsedKeys == {}

\* The loop over one group from position gi on.
RECURSIVE GroupKeys(_, _, _, _)
GroupKeys(groupMetas, samePath, gi, usedKeys) ==
    IF gi > Len(groupMetas) THEN <<>>
    ELSE LET meta == groupMetas[gi]
             finalKey == FinalKey(BaseKey(meta, samePath), meta.method, usedKeys)
         IN  <<finalKey>>
                \o GroupKeys(groupMetas, samePath, gi + 1, usedKeys \cup {finalKey})

\* The indices of the group of ms[n], in insertion order.
GroupIndices(ms, n) ==
    SelectSeq([k \in 1..Len(ms) |-> k], LAMBDA k : GroupKey(ms[k]) = GroupKey(ms[n]))

resolveEndpointNames(ms) ==
    [n \in 1..Len(ms) |->
        LET indices == GroupIndices(ms, n)
            groupMetas == [g \in 1..Len(indices) |-> ms[indices[g]]]
            uniquePaths == {groupMetas[g].path : g \in 1..Len(groupMetas)}
            gi == CHOOSE g \in 1..Len(indices) : indices[g] = n
        IN  IF Len(indices) = 1 THEN ms[n].baseName
            ELSE GroupKeys(groupMetas, Cardinality(uniquePaths) = 1, 1, NewUsedKeys)[gi]]


(***************************************************************************)
(* api-endpoints-generator.ts: generateApiEndpoints.  The nested object    *)
(* `structure` is kept flat: one entry per key, `at` the keys from the     *)
(* top down to it, and either a string (leaf, with its url) or an object.  *)
(***************************************************************************)
Folder(at) == [at |-> at, leaf |-> FALSE, url |-> ""]
Leaf(at, url) == [at |-> at, leaf |-> TRUE, url |-> url]

\* The entry at `at` and everything nested in it.
Under(st, at) ==
    {e \in st : Len(e.at) >= Len(at) /\ SubSeq(e.at, 1, Len(at)) = at}

\* current[key] = value: whatever the key held is dropped.
Assign(st, entry) == (st \ Under(st, entry.at)) \cup {entry}

\* Mutant: the segment becomes an empty folder and the URL is dropped.
Demote_DropsUrl(st, here, existing) == Assign(st, Folder(here))

\* current[segment] = { _self: existing }
Demote(st, here, existing) ==
    Assign(st, Folder(here)) \cup {Leaf(Append(here, "_self"), existing.url)}

\* The walk down folderSegments, `at` being the keys of `current`.
RECURSIVE Descend(_, _, _)
Descend(st, at, folderSegments) ==
    IF Len(folderSegments) = 0 THEN st
    ELSE LET here == Append(at, folderSegments[1])
             existing == {e \in st : e.at = here}
             created ==
                IF \A e \in existing : e.leaf /\ e.url = ""
                THEN Assign(st, Folder(here))
                ELSE IF \E e \in existing : e.leaf
                THEN Demote(st, here, CHOOSE e \in existing : e.leaf)
                ELSE st
         IN  Descend(created, here, Tail(folderSegments))

\* One turn of the loop over metas.
PlaceEndpoint(st, meta, endpointName) ==
    LET folderSegments ==
            IF meta.folderPath = "" THEN <<>>
            ELSE SelectSeq(Split(meta.folderPath, "/"), NonEmptyStr)
    IN  Assign(Descend(st, <<>>, folderSegments),
               Leaf(Append(folderSegments, endpointName), meta.path))

\* cli.ts generates the types of the document first
GenerateTypes ==
    /\ pc = "generate"
    /\ \E generated \in {generateTypes(spec, prefixSkip)} :
            /\ typeMap' = generated.map
            /\ pc' = IF generated.threw THEN "threw" ELSE "typed"
    /\ UNCHANGED <<pathVars, docVars, urlVars, depsVars, out,
                   metas, resolvedNames, structure, placed, previous, configVars, normVars>>

\* generateApiEndpoints up to the loop
ResolveNames ==
    /\ pc = "typed"
    /\ \E endpoints \in {generateEndpointTypes(spec, prefixSkip)} :
           metas' = [k \in 1..Len(endpoints) |->
                        EndpointMeta(endpoints[k], prefixSkip)]
    /\ resolvedNames' = resolveEndpointNames(metas')
    /\ structure' = {}
    /\ placed' = 0
    /\ pc' = "placing"
    /\ UNCHANGED <<pathVars, docVars, urlVars, depsVars, out, typeMap, previous, configVars, normVars>>

\* one turn of the loop
Place ==
    /\ pc = "placing"
    /\ placed < Len(metas)
    /\ structure' = PlaceEndpoint(structure, metas[placed + 1],
                                  resolvedNames[placed + 1])
    /\ placed' = placed + 1
    /\ UNCHANGED <<pc, pathVars, docVars, urlVars, depsVars, out,
                   typeMap, metas, resolvedNames, previous, configVars, normVars>>

\* the loop is over
PlacedAll ==
    /\ pc = "placing"
    /\ placed = Len(metas)
    /\ pc' = "generated"
    /\ UNCHANGED <<pathVars, docVars, urlVars, depsVars, out, genVars, configVars, normVars>>

(***************************************************************************)
(* Inputs of the generators: documents of up to MaxPaths paths, in every   *)
(* order, each with a GET or with a GET and a POST.                        *)
(***************************************************************************)
MaxPaths == 3

EndpointPaths ==
    {"/users", "/users/{id}", "/{id}/users", "/users/{a}/{b}", "/users/list/all"}

MethodSets == {{"get"}, {"get", "post"}}

PathItems == {PathItem(p, ms) : p \in EndpointPaths, ms \in MethodSets}

DistinctPaths(items) ==
    \A j, k \in 1..Len(items) : j # k => items[j].path # items[k].path

PathLists == {items \in SeqsUpTo(PathItems, MaxPaths) : DistinctPaths(items)}

EndpointSpecs ==
    {[EmptySpec EXCEPT !.paths = items,
                       !.schemas = <<Entry("User", Typed("string"))>>] :
        items \in PathLists}

InitEndpoints ==
    /\ NothingGenerated
    /\ NothingBuilt
    /\ NothingMerged
    /\ NothingNormalized
    /\ pointer = ""
    /\ pc = "generate"
    /\ spec \in EndpointSpecs
    /\ prefixSkip \in 0..MaxSkip
    /\ schema = NoKeys
    /\ stack = <<>>
    /\ deps = <<>>
    /\ out = ""
    /\ path = ""
    /\ nameOut = ""
    /\ folderOut = ""

NextEndpoints == GenerateTypes \/ ResolveNames \/ Place \/ PlacedAll

SpecEndpoints == InitEndpoints /\ [][NextEndpoints]_vars


(***************************************************************************)
(* Claims about the resolved names and the tree.                           *)
(***************************************************************************)
NamesResolved == pc \in {"placing", "generated"}

\* The operations that share folder and base name with operation n.
SameGroup(n) ==
    {k \in 1..Len(metas) : /\ metas[k].folderPath = metas[n].folderPath
                           /\ metas[k].baseName = metas[n].baseName}

OnePath(group) == \A j, k \in group : metas[j].path = metas[k].path

\* C7: in resolveEndpointNames, the only endpoint of a (folder, base name)
\* group keeps the base name, and the endpoints of a group that share one
\* exact path get base name + "_" + method; GET and POST on /users/{id}
\* resolve to users_get and users_post.
C7_SingleAndSamePathGroups ==
    NamesResolved =>
        /\ \A n \in 1..Len(metas) :
            /\ Cardinality(SameGroup(n)) = 1 =>
                    resolvedNames[n] = metas[n].baseName
            /\ Cardinality(SameGroup(n)) > 1 /\ OnePath(SameGroup(n)) =>
                    resolvedNames[n] = metas[n].baseName \o "_" \o metas[n].method
        /\ spec.paths = <<PathItem("/users/{id}", {"get", "post"})>> /\ prefixSkip = 0 =>
                resolvedNames = <<"users_get", "users_post">>

C7_Witness ==
    /\ pc = "generated"
    /\ prefixSkip = 0
    /\ spec.paths = <<PathItem("/users/list/all", {"get"}),
                      PathItem("/users/{id}", {"get", "post"})>>
    /\ resolvedNames = <<"users_list_all", "users_get", "users_post">>

\* The parameters of a path: its segments of the form {name}.
ClaimedParams(p) ==
    LET whole == SelectSeq(RefSplit(RefStrip(p)),
                    LAMBDA g : Len(g) >= 2 /\ Head(g) = "{"
                                /\ SubSeq(g, Len(g), Len(g)) = "}")
    IN  [k \in 1..Len(whole) |-> SubSeq(whole[k], 2, Len(whole[k]) - 1)]

ClaimedKey(n) ==
    IF Len(ClaimedParams(metas[n].path)) = 0 THEN metas[n].baseName
    ELSE metas[n].baseName \o "_by_" \o Join(ClaimedParams(metas[n].path), "_and_")

\* The keys given to the operations of n's group that come before n.
TakenBefore(n) == {resolvedNames[k] : k \in {j \in SameGroup(n) : j < n}}

\* C8: in a group whose endpoints have differing paths the key is the base
\* name suffixed with by_<p1>_and_..._and_<pn> (the base name alone without
\* parameters); when that key is taken in the group the method is appended,
\* then a counter from 2 on; the keys of one group are pairwise distinct.
C8_DifferingPathsGroups ==
    NamesResolved =>
        \A n \in 1..Len(metas) :
            ~OnePath(SameGroup(n)) =>
                LET key == ClaimedKey(n)
                    withMethod == key \o "_" \o metas[n].method
                IN  /\ IF key \notin TakenBefore(n) THEN resolvedNames[n] = key
                       ELSE IF withMethod \notin TakenBefore(n)
                       THEN resolvedNames[n] = withMethod
                       ELSE \E c \in 2..(Len(metas) + 1) :
                              /\ resolvedNames[n] = withMethod \o "_" \o ToString(c)
                              /\ \A b \in 2..(c - 1) :
                                    withMethod \o "_" \o ToString(b) \in TakenBefore(n)
                    /\ \A k \in SameGroup(n) :
                            k # n => resolvedNames[k] # resolvedNames[n]

C8_Witness ==
    /\ pc = "generated"
    /\ prefixSkip = 0
    /\ \E n \in 1..Len(metas) : resolvedNames[n] = "users_by_id_post_2"
    /\ \E n \in 1..Len(metas) : resolvedNames[n] = "users_by_id_get"
    /\ \E n \in 1..Len(metas) : resolvedNames[n] = "users_by_a_and_b"

\* C9: once generateApiEndpoints has placed every endpoint, the URL template
\* of every operation is a string leaf of the tree and the tree has as many
\* string leaves as the document has operations.
C9_NoPlacementOverwrites ==
    pc = "generated" =>
        /\ \A n \in 1..Len(metas) :
                \E e \in structure : e.leaf /\ e.url = metas[n].path
        /\ Cardinality({e \in structure : e.leaf}) = Len(metas)

\* C10: for every operation the name pathToEndpointName gives its path is
\* the identifier of its entry in the type map ('endpoint:<name>') and the
\* key under which its URL template is stored.
C10_NameSharedByTypeAndUrl ==
    NamesResolved =>
        \A n \in 1..Len(metas) :
            LET name == pathToEndpointName(metas[n].path, prefixSkip)
            IN  /\ \E k \in 1..Len(typeMap) :
                        /\ typeMap[k].name = "endpoint:" \o name
                        /\ typeMap[k].value.name = name
                /\ resolvedNames[n] = name


TypesGenerated == pc \in {"typed", "placing", "generated"}

\* The (path, method) operations present in the document.
DocumentOperations ==
    UNION {{<<spec.paths[k].path, m>> : m \in spec.paths[k].methods} :
            k \in 1..Len(spec.paths)}

\* C11: the map returned by generateTypes has an entry for every named
\* schema and, for every (path, method) operation of the document, an
\* 'endpoint:' entry of its own holding that operation's declarations.
C11_OneEntryPerOperation ==
    TypesGenerated =>
        /\ \A k \in 1..Len(spec.schemas) :
                \E t \in 1..Len(typeMap) : typeMap[t].name = spec.schemas[k].name
        /\ \A op \in DocumentOperations :
                \E t \in 1..Len(typeMap) :
                    /\ StartsWith(typeMap[t].name, "endpoint:")
                    /\ typeMap[t].value.path = op[1]
                    /\ typeMap[t].value.method = op[2]


(***************************************************************************)
(* api-endpoints-generator.ts: buildUrl, the function of the generated     *)
(* file.  params is a sequence of [key, value] entries; a value is a       *)
(* string or a number.  The call returns [threw |-> FALSE, value |-> url]  *)
(* or throws [threw |-> TRUE, value |-> message].                          *)
(***************************************************************************)
StringParam(s) == [isNumber |-> FALSE, str |-> s, num |-> 0]
NumberParam(n) == [isNumber |-> TRUE, str |-> "", num |-> n]

\* String(value)
StringOf(value) == IF value.isNumber THEN ToString(value.num) ELSE value.str

\* The replacement patterns of String.prototype.replace: $$ inserts "$" and
\* $& inserts the matched text; any other "$" stands for itself.
RECURSIVE ExpandReplacement(_, _)
ExpandReplacement(replacement, matched) ==
    IF replacement = "" THEN ""
    ELSE IF StartsWith(replacement, "$$")
    THEN "$" \o ExpandReplacement(SubSeq(replacement, 3, Len(replacement)), matched)
    ELSE IF StartsWith(replacement, "$&")
    THEN matched \o ExpandReplacement(SubSeq(replacement, 3, Len(replacement)), matched)
    ELSE Head(replacement) \o ExpandReplacement(Tail(replacement), matched)

\* url.replace(new RegExp('\\{' + key + '\\}', 'g'), replacement), the key
\* having no character special to RegExp: the inserted text is not rescanned.
RECURSIVE ReplacePlaceholder(_, _, _)
ReplacePlaceholder(url, key, replacement) ==
    LET placeholder == "{" \o key \o "}"
    IN  IF url = "" THEN ""
        ELSE IF StartsWith(url, placeholder)
        THEN ExpandReplacement(replacement, placeholder)
                \o ReplacePlaceholder(SubSeq(url, Len(placeholder) + 1, Len(url)),
                                      key, replacement)
        ELSE Head(url) \o ReplacePlaceholder(Tail(url), key, replacement)

\* The loop over Object.entries(params).
RECURSIVE ReplaceEach(_, _)
ReplaceEach(url, entries) ==
    IF Len(entries) = 0 THEN url
    ELSE ReplaceEach(
            ReplacePlaceholder(url, entries[1].key, StringOf(entries[1].value)),
            Tail(entries))

\* url.match(/\{[^}]+\}/g), each match without its braces.
RECURSIVE RemainingPlaceholders(_)
RemainingPlaceholders(url) ==
    IF url = "" THEN <<>>
    ELSE LET close == IndexOf("}", url, 2)
         IN  IF Head(url) = "{" /\ close > 2
             THEN <<SubSeq(url, 2, close - 1)>>
                    \o RemainingPlaceholders(SubSeq(url, close + 1, Len(url)))
             ELSE RemainingPlaceholders(Tail(url))

ParamKeys(entries) == [k \in 1..Len(entries) |-> entries[k].key]

buildUrl(template, entries) ==
    LET url == ReplaceEach(template, entries)
        remainingPlaceholders == RemainingPlaceholders(url)
    IN  IF Len(remainingPlaceholders) > 0
        THEN [threw |-> TRUE,
              value |-> "Missing required path parameters: "
                            \o Join(remainingPlaceholders, ", ") \o ". "
                            \o "Provided params: " \o Join(ParamKeys(entries), ", ")]
        ELSE [threw |-> FALSE, value |-> url]

\* a caller builds a URL
BuildUrl ==
    /\ pc = "build"
    /\ built' = buildUrl(urlTemplate, urlParams)
    /\ pc' = "built"
    /\ UNCHANGED <<urlTemplate, urlParams, pathVars, docVars, depsVars, out, genVars, configVars, normVars>>


(***************************************************************************)
(* Inputs of buildUrl: templates of up to MaxUrlTokens tokens and params   *)
(* of up to two entries, and the two calls of the documentation.           *)
(***************************************************************************)
MaxUrlTokens == 3

UrlTokens == {"/u", "{a}", "{b}", "{", "}"}

RECURSIVE UrlTemplates(_)
UrlTemplates(n) ==
    IF n = 0 THEN {""}
    ELSE LET shorter == UrlTemplates(n - 1)
         IN  shorter \cup {s \o t : s \in shorter, t \in UrlTokens}

ParamValues ==
    {StringParam("1"), StringParam(""), StringParam("{b}"), StringParam("$&"),
     StringParam("$$"), NumberParam(7)}

ParamEntries == {[key |-> k, value |-> v] : k \in {"a", "b"}, v \in ParamValues}

ParamLists ==
    {<<>>} \cup {<<e>> : e \in ParamEntries}
        \cup {<<e, f>> : e \in {x \in ParamEntries : x.key = "a"},
                         f \in {x \in ParamEntries : x.key = "b"}}
        \cup {<<f, e>> : e \in {x \in ParamEntries : x.key = "a"},
                         f \in {x \in ParamEntries : x.key = "b"}}

UrlExamples ==
    {[template |-> "/api/v1/users/{id}",
      entries |-> <<[key |-> "id", value |-> StringParam("123")]>>],
     [template |-> "/api/v1/x/{a}/{b}",
      entries |-> <<[key |-> "a", value |-> StringParam("1")]>>]}

UrlInputs ==
    UrlExamples \cup {[template |-> t, entries |-> e] :
                        t \in UrlTemplates(MaxUrlTokens), e \in ParamLists}

InitUrl ==
    /\ NothingGenerated
    /\ NotBuilt
    /\ NothingMerged
    /\ NothingNormalized
    /\ pointer = ""
    /\ pc = "build"
    /\ \E input \in UrlInputs :
            /\ urlTemplate = input.template
            /\ urlParams = input.entries
    /\ spec = EmptySpec
    /\ schema = NoKeys
    /\ stack = <<>>
    /\ deps = <<>>
    /\ out = ""
    /\ path = ""
    /\ prefixSkip = 0
    /\ nameOut = ""
    /\ folderOut = ""

NextUrl == BuildUrl

SpecUrl == InitUrl /\ [][NextUrl]_vars

\* The substitution as described: every {key} becomes String(value) as it is.
RECURSIVE ClaimedSubstitute(_, _, _)
ClaimedSubstitute(url, key, text) ==
    LET placeholder == "{" \o key \o "}"
    IN  IF url = "" THEN ""
        ELSE IF StartsWith(url, placeholder)
        THEN text \o ClaimedSubstitute(SubSeq(url, Len(placeholder) + 1, Len(url)),
                                       key, text)
        ELSE Head(url) \o ClaimedSubstitute(Tail(url), key, text)

RECURSIVE ClaimedUrl(_, _)
ClaimedUrl(url, entries) ==
    IF Len(entries) = 0 THEN url
    ELSE ClaimedUrl(ClaimedSubstitute(url, entries[1].key, StringOf(entries[1].value)),
                    Tail(entries))

\* C12: buildUrl replaces every {key} whose key is in params with
\* String(params[key]) and returns the result when no placeholder is left;
\* otherwise it throws a message naming every placeholder left and the keys
\* supplied.  The two documented calls return "/api/v1/users/123" and fail
\* naming b.
C12_BuildUrlSubstitutes ==
    pc = "built" =>
        LET url == ClaimedUrl(urlTemplate, urlParams)
            left == RemainingPlaceholders(url)
        IN  /\ Len(left) = 0 => built = [threw |-> FALSE, value |-> url]
            /\ Len(left) > 0 =>
                    /\ built.threw
                    /\ built.value =
                        "Missing required path parameters: " \o Join(left, ", ")
                            \o ". Provided params: "
                            \o Join(ParamKeys(urlParams), ", ")
            /\ urlTemplate = "/api/v1/users/{id}" =>
                    built = [threw |-> FALSE, value |-> "/api/v1/users/123"]
            /\ urlTemplate = "/api/v1/x/{a}/{b}" =>
                    built = [threw |-> TRUE,
                             value |-> "Missing required path parameters: b. "
                                        \o "Provided params: a"]


(***************************************************************************)
(* Claims about references.                                                *)
(***************************************************************************)
SectionOf(sp, section) ==
    CASE section = "schemas" -> sp.schemas
      [] section = "parameters" -> sp.parameters
      [] section = "responses" -> sp.responses
      [] OTHER -> <<>>

\* What '#/components/<section>/<key>' names in the document, <<>> if nothing.
ComponentTarget(ref, sp) ==
    LET parts == RefSplit(ref)
    IN  IF Len(parts) >= 4 /\ parts[1] = "#" /\ parts[2] = "components"
        THEN Lookup(SectionOf(sp, parts[3]), Join(SubSeq(parts, 4, Len(parts)), "/"))
        ELSE <<>>

\* What '#/definitions/<key>' names in the document, <<>> if nothing.
DefinitionTarget(ref, sp) ==
    LET parts == RefSplit(ref)
    IN  IF Len(parts) >= 3 /\ parts[1] = "#" /\ parts[2] = "definitions"
        THEN Lookup(sp.schemas, Join(SubSeq(parts, 3, Len(parts)), "/"))
        ELSE <<>>

Unresolvable(ref, sp) == ComponentTarget(ref, sp) = <<>> /\ DefinitionTarget(ref, sp) = <<>>

\* C13: schemaToTypeScript on a reference that cannot be resolved (external
\* pointer, unknown section, missing key) returns the reference's trailing
\* path segment and does not throw.
C13_UnresolvableRefGivesName ==
    pc = "compiled" /\ isRef(schema) /\ Unresolvable(schema.ref[1], spec) =>
        /\ out = TrailingName(schema.ref[1])
        /\ out # RangeError

C13_Witness ==
    /\ pc = "compiled"
    /\ spec # EmptySpec
    /\ schema = Ref("other.json#/components/schemas/A")
    /\ out = "A"


(***************************************************************************)
(* Inputs of generateTypes: documents whose schemas refer to User, to a    *)
(* schema that does not exist or to another file, in every order, with no  *)
(* path or with GET /users carrying a request body and responses.          *)
(***************************************************************************)
SchemaEntries ==
    {Entry("User", Typed("string")),
     Entry("Alias", SchemaRef("Missing")),
     Entry("Alias", Ref("other.json#/User")),
     Entry("Alias", SchemaRef("User")),
     Entry("Alias", ObjectOf(<<Prop("q", ObjectOf(<<Prop("p", Typed("string"))>>)),
                               Prop("r", SchemaRef("User"))>>)),
     Entry("Box", ObjectOf(<<Prop("p", SchemaRef("Missing"))>>)),
     Entry("Box", ArrayOf(SchemaRef("User"))),
     Entry("Box", [NoKeys EXCEPT !.oneOf = <<<<SchemaRef("Missing"), Typed("string")>>>>])}

DistinctNames(entries) ==
    \A j, k \in 1..Len(entries) : j # k => entries[j].name # entries[k].name

SchemaLists ==
    {entries \in SeqsUpTo(SchemaEntries, Cardinality({e.name : e \in SchemaEntries})) :
        DistinctNames(entries)}

RequestBodies ==
    {<<>>,
     <<Content(<<>>, <<SchemaRef("User")>>)>>,
     <<Content(<<"the\nbody">>, <<ArrayOf(SchemaRef("User"))>>)>>,
     <<ContentRef("#/components/requestBodies/Body")>>}

ResponseLists ==
    {<<>>,
     <<Entry("200", Content(<<>>, <<SchemaRef("User")>>))>>,
     <<Entry("200", Content(<<"ok">>, <<ObjectOf(<<Prop("box", SchemaRef("Box"))>>)>>)),
       Entry("404", ContentRef("#/components/responses/NotFound"))>>}

OperationLists ==
    {<<>>} \cup
    {<<[PathItem("/users", {"get"}) EXCEPT
            !.details = <<Entry("get", Operation(body, responses))>>]>> :
        body \in RequestBodies, responses \in ResponseLists}

NamedResponses ==
    {<<>>, <<Entry("NotFound", Content(<<>>, <<ArrayOf(SchemaRef("Alias"))>>))>>}

TypesSpecs ==
    {[EmptySpec EXCEPT !.paths = items, !.schemas = entries, !.responses = named] :
        items \in OperationLists, entries \in SchemaLists, named \in NamedResponses}

InitTypes ==
    /\ NothingGenerated
    /\ NothingBuilt
    /\ NothingMerged
    /\ NothingNormalized
    /\ pointer = ""
    /\ pc = "generate"
    /\ spec \in TypesSpecs
    /\ prefixSkip = 0
    /\ schema = NoKeys
    /\ stack = <<>>
    /\ deps = <<>>
    /\ out = ""
    /\ path = ""
    /\ nameOut = ""
    /\ folderOut = ""

NextTypes == GenerateTypes

SpecTypes == InitTypes /\ [][NextTypes]_vars

\* C14: generateTypes does not abort because of an unresolvable reference:
\* when an entry of components.schemas is, or contains, such a reference,
\* the returned map still has a declaration for every other schema and for
\* every endpoint.
C14_NoAbortOnBadReference ==
    pc \in {"typed", "threw"} =>
        /\ pc = "typed"
        /\ \A k \in 1..Len(spec.schemas) :
                ~(isRef(spec.schemas[k].value)
                    /\ Unresolvable(spec.schemas[k].value.ref[1], spec)) =>
                    \E t \in 1..Len(typeMap) : typeMap[t].name = spec.schemas[k].name
        /\ \A op \in DocumentOperations :
                \E t \in 1..Len(typeMap) :
                    /\ typeMap[t].value.path = op[1]
                    /\ typeMap[t].value.method = op[2]

\* The trailing names of the references written in a schema, at any depth.
RECURSIVE ReferencedNames(_)
ReferencedNames(s) ==
    IF isRef(s) THEN {TrailingName(s.ref[1])}
    ELSE UNION {ReferencedNames(c) :
                    c \in Range(PropertyValues(s) \o s.items \o ListOf(s.oneOf)
                                    \o ListOf(s.anyOf) \o ListOf(s.allOf) \o s.apSchema)}

\* The schemas written inline in the request body and responses of an operation.
OperationSchemas(operation) ==
    UNION {Range(c.json) :
            c \in Range(operation.requestBody)
                    \cup {operation.responses[k].value : k \in 1..Len(operation.responses)}}

\* C20: the dependencies of every endpoint's declaration contain the name
\* of every named type referenced, directly or inside an inline schema, by
\* its request-body schema and by each of its response schemas.
C20_EndpointDependenciesComplete ==
    pc = "typed" =>
        \A k \in 1..Len(spec.paths) : \A m \in spec.paths[k].methods :
            \E t \in 1..Len(typeMap) :
                /\ typeMap[t].value.path = spec.paths[k].path
                /\ typeMap[t].value.method = m
                /\ \A s \in OperationSchemas(OperationAt(spec.paths[k], m)) :
                        ReferencedNames(s) \subseteq Range(typeMap[t].value.dependencies)


(***************************************************************************)
(* Inputs of resolveRef: reference strings of up to MaxRefParts parts and  *)
(* some longer ones, over an empty document, a document with one schema    *)
(* and a document whose schema A is itself a reference.                    *)
(***************************************************************************)
MaxRefParts == 4

RefParts == {"#", "components", "schemas", "responses", "definitions", "A", ""}

RECURSIVE RefStrings(_)
RefStrings(n) ==
    IF n = 1 THEN RefParts
    ELSE LET shorter == RefStrings(n - 1)
         IN  shorter \cup {r \o "/" \o t : r \in shorter, t \in RefParts}

Pointers ==
    RefStrings(MaxRefParts)
        \cup {"#/components/parameters/A", "#/components/schemas/A/b",
              "#/definitions/A/b", "other.json#/components/schemas/A",
              "http://host/spec.json#/components/schemas/A", "#/components/headers/A",
              "#/components/schemas/Missing"}

Parameter(name, where) == [name |-> name, in |-> where]

ResolverSpecs ==
    {EmptySpec,
     [EmptySpec EXCEPT !.schemas = <<Entry("A", Typed("string"))>>],
     [EmptySpec EXCEPT
        !.schemas = <<Entry("A", SchemaRef("B")), Entry("B", Typed("string")),
                      Entry("A/b", Typed("number"))>>,
        !.parameters = <<Entry("A", Parameter("id", "path"))>>,
        !.responses = <<Entry("A", Content(<<"ok">>, <<SchemaRef("A")>>))>>]}

InitResolve ==
    /\ NothingGenerated
    /\ NothingBuilt
    /\ NothingMerged
    /\ NothingNormalized
    /\ pc = "resolve"
    /\ pointer \in Pointers
    /\ spec \in ResolverSpecs
    /\ schema = NoKeys
    /\ prefixSkip = 0
    /\ stack = <<>>
    /\ deps = <<>>
    /\ out = ""
    /\ path = ""
    /\ nameOut = ""
    /\ folderOut = ""

NextResolve == ResolveRef

SpecResolve == InitResolve /\ [][NextResolve]_vars

SelfBranches == {<<SchemaRef("A"), Typed("string")>>, <<Typed("number"), SchemaRef("A")>>,
                 <<SchemaRef("A"), SchemaRef("B")>>}

SelfReaching ==
    UNION {{[base EXCEPT !.oneOf = <<list>>], [base EXCEPT !.anyOf = <<list>>],
            [base EXCEPT !.allOf = <<list>>]} :
                base \in {NoKeys, Typed("object"), Typed("string"),
                          Nullable(Typed("object"))},
                list \in SelfBranches}

CyclicSpecs ==
    {[EmptySpec EXCEPT !.schemas = <<Entry("A", a), Entry("B", b)>>] :
        a \in SelfReaching, b \in {Typed("string"), ArrayOf(SchemaRef("A"))}}

CyclicNodes(sp) ==
    {sp.schemas[1].value, SchemaRef("A"), SchemaRef("B"),
     [NoKeys EXCEPT !.oneOf = <<<<SchemaRef("A"), Typed("number")>>>>],
     ObjectOf(<<Prop("next", [NoKeys EXCEPT !.allOf = <<<<SchemaRef("A"),
                                                          Typed("object")>>>>])>>)}

InitCycle ==
    /\ NothingGenerated
    /\ NothingBuilt
    /\ NothingMerged
    /\ NothingNormalized
    /\ pointer = ""
    /\ pc = "compile"
    /\ spec \in CyclicSpecs
    /\ schema \in CyclicNodes(spec)
    /\ out = ""
    /\ stack = <<>>
    /\ deps = <<>>
    /\ path = ""
    /\ prefixSkip = 0
    /\ nameOut = ""
    /\ folderOut = ""

NextCycle == Compile

SpecCycle == InitCycle /\ [][NextCycle]_vars

\* C16: schemaToTypeScript returns a type expression, without throwing,
\* for every node of every document, documents in which a named schema
\* reaches itself through $ref branches of oneOf, anyOf or allOf included.
C16_CompilerTerminates ==
    pc = "compiled" => out # RangeError


(***************************************************************************)
(* The precedence of the keywords of one node.                             *)
(***************************************************************************)
EndsWith(s, suffix) ==
    Len(s) >= Len(suffix) /\ SubSeq(s, Len(s) - Len(suffix) + 1, Len(s)) = suffix

Listed(opt) == Present(opt) /\ opt[1] # <<>>

\* The first keyword of the node in the fixed order; objectHere says whether
\* the node counts as an object.
RankOf(s, objectHere) ==
    IF s.nullable = <<TRUE>> THEN "nullable"
    ELSE IF Listed(s.oneOf) THEN "oneOf"
    ELSE IF Listed(s.anyOf) THEN "anyOf"
    ELSE IF Listed(s.allOf) THEN "allOf"
    ELSE IF Listed(s.enum) THEN "enum"
    ELSE IF s.type = <<"array">> THEN "array"
    ELSE IF objectHere THEN "object"
    ELSE "primitive"

\* The node carries object properties, or is typed object.
CarriesProperties(s) == s.type = <<"object">> \/ Present(s.properties)

\* The node is typed object, or is untyped and carries properties.
ObjectTyped(s) == s.type = <<"object">> \/ (s.type = <<>> /\ Present(s.properties))

\* The node with nothing but what its first keyword reads.
OnlyKeyword(s, rank) ==
    CASE rank = "oneOf" -> [NoKeys EXCEPT !.oneOf = s.oneOf]
      [] rank = "anyOf" -> [NoKeys EXCEPT !.anyOf = s.anyOf]
      [] rank = "allOf" -> [NoKeys EXCEPT !.allOf = s.allOf]
      [] rank = "enum" -> [NoKeys EXCEPT !.enum = s.enum]
      [] rank = "array" -> [NoKeys EXCEPT !.type = s.type, !.items = s.items]
      [] rank = "object" ->
            [NoKeys EXCEPT !.type = <<"object">>, !.properties = s.properties,
                           !.required = s.required, !.ap = s.ap,
                           !.apSchema = s.apSchema]
      [] OTHER -> [NoKeys EXCEPT !.type = s.type]

\* The shape of the text each keyword produces.
HasFormOf(text, s, rank) ==
    CASE rank = "nullable" -> EndsWith(text, " | null")
      [] rank \in {"oneOf", "anyOf", "allOf"} ->
            \/ StartsWith(text, "(") /\ EndsWith(text, ")")
            \/ \E i \in 1..Len(ListOf(DecidingList(s))) :
                    /\ Present(DecidingList(s)[1][i].ref)
                    /\ text = TrailingName(DecidingList(s)[1][i].ref[1])
      [] rank = "enum" ->
            text = Join([i \in 1..Len(s.enum[1]) |-> EnumLiteral(s.enum[1][i])], " | ")
      [] rank = "array" -> EndsWith(text, "[]")
      [] rank = "object" ->
            \/ StartsWith(text, "{\n") /\ EndsWith(text, "\n}")
            \/ StartsWith(text, "Record<string, ")
      [] OTHER -> text \in {"string", "number", "boolean", "undefined"}

DecidedBy(s, rank) ==
    /\ HasFormOf(out, s, rank)
    /\ rank # "nullable" => out = schemaToTypeScript(OnlyKeyword(s, rank), spec, 0)

\* C17 as stated: of nullable, oneOf, anyOf, allOf, enum, type 'array',
\* object properties and a primitive type, a non-reference node is compiled
\* by the first one it carries alone, a node that carries object properties
\* and a primitive type hence as an object.
C17_FirstKeywordAsStated ==
    pc = "compiled" /\ ~Present(schema.ref) =>
        DecidedBy(schema, RankOf(schema, CarriesProperties(schema)))

\* C17: a non-reference node is compiled by the first keyword present in the
\* order nullable, oneOf, anyOf, allOf, enum, array, object, primitive, where
\* a list counts when it is not empty and a node is an object when it is
\* typed object or is untyped with properties; the result has that
\* keyword's form and, below nullable, equals the result for the node
\* stripped of every lower-ranked keyword.
C17_FirstKeywordDecides ==
    pc = "compiled" /\ ~Present(schema.ref) =>
        DecidedBy(schema, RankOf(schema, ObjectTyped(schema)))

C17_Witness ==
    /\ pc = "compiled"
    /\ schema = [Typed("object") EXCEPT !.enum = <<<<StringValue("a")>>>>,
                    !.allOf = <<<<Typed("string"), SchemaRef("Missing")>>>>]
    /\ out = "(string & Missing)"


(***************************************************************************)
(* Lists that do not collapse.                                             *)
(***************************************************************************)
\* The names of the references among the entries of the list.
ReferenceNames(list) ==
    {TrailingName(list[i].ref[1]) : i \in {j \in 1..Len(list) : Present(list[j].ref)}}

\* An entry that is no reference and carries real structure.
RealStructure(e) == ~Present(e.ref) /\ ~ClaimedEmpty(e)

NotCollapsing(list) ==
    \/ Cardinality(ReferenceNames(list)) > 1
    \/ \E i \in 1..Len(list) : RealStructure(list[i])

ClaimedSeparator(s) ==
    IF DecidingList(s) = s.oneOf \/ DecidingList(s) = s.anyOf THEN " | " ELSE " & "

\* C18: for a node that is no reference and not nullable, whose deciding
\* list (oneOf, anyOf or allOf) holds references to more than one name or a
\* non-reference entry with real structure, schemaToTypeScript returns "(",
\* every entry compiled, in list order, joined with " | " (oneOf, anyOf) or
\* " & " (allOf), and ")".
C18_NoCollapseJoinsBranches ==
    pc = "compiled" /\ ~Present(schema.ref) /\ schema.nullable # <<TRUE>>
        /\ DecidingList(schema) # <<>> /\ NotCollapsing(DecidingList(schema)[1]) =>
            out = "(" \o Join([i \in 1..Len(DecidingList(schema)[1]) |->
                                  schemaToTypeScript(DecidingList(schema)[1][i], spec, 0)],
                              ClaimedSeparator(schema)) \o ")"

C18_Witness ==
    /\ pc = "compiled"
    /\ schema = [Typed("string") EXCEPT
                    !.allOf = <<<<SchemaRef("B"), NoKeys, SchemaRef("Missing")>>>>]
    /\ spec # EmptySpec
    /\ out = "(string & undefined & Missing)"


(***************************************************************************)
(* The references reachable from a node.                                   *)
(***************************************************************************)
\* The references written in the node itself: the node when it is a
\* reference, else those of its properties, items, branches and
\* schema-valued additionalProperties.
RECURSIVE ReferencesIn(_)
ReferencesIn(s) ==
    IF isRef(s) THEN {s.ref[1]}
    ELSE UNION {ReferencesIn(c) :
                    c \in Range(PropertyValues(s) \o s.items \o ListOf(s.oneOf)
                                    \o ListOf(s.anyOf) \o ListOf(s.allOf) \o s.apSchema)}

\* The references of refs and those written in each resolved target, to the
\* fixed point.
RECURSIVE ReachableReferences(_, _)
ReachableReferences(refs, sp) ==
    LET behind == UNION {ReferencesIn(t) :
                            t \in UNION {Range(resolveRef(r, sp)) : r \in refs}}
    IN  IF behind \subseteq refs THEN refs
        ELSE ReachableReferences(refs \cup behind, sp)

ReachableNames(s, sp) ==
    {TrailingName(r) : r \in ReachableReferences(ReferencesIn(s), sp)}

\* C19: extractDependencies(node, spec) returns exactly the trailing names
\* of all references reachable from node, the walk continuing from each
\* reference into its resolved target whatever keywords the target carries.
C19_AllReachableReferences ==
    pc = "extracted" => Range(deps) = ReachableNames(schema, spec)


(***************************************************************************)
(* Two runs over one document: cli.ts calls generateTypes and then         *)
(* generateApiEndpoints; RunAgain keeps what they returned and starts      *)
(* both again on the same document and configuration.                      *)
(***************************************************************************)
RunAgain ==
    /\ pc = "generated"
    /\ previous = <<>>
    /\ previous' = <<[typeMap |-> typeMap, structure |-> structure]>>
    /\ pc' = "generate"
    /\ UNCHANGED <<pathVars, docVars, urlVars, depsVars, out,
                   typeMap, metas, resolvedNames, structure, placed, configVars, normVars>>

TwicePathLists == {items \in PathLists : Len(items) < MaxPaths}

TwiceSpecs ==
    {[EmptySpec EXCEPT !.paths = items,
                       !.schemas = <<Entry("User", Typed("string"))>>] :
        items \in TwicePathLists}
    \cup {sp \in TypesSpecs : sp.responses # <<>>}

InitTwice ==
    /\ NothingGenerated
    /\ NothingBuilt
    /\ NothingMerged
    /\ NothingNormalized
    /\ pointer = ""
    /\ pc = "generate"
    /\ spec \in TwiceSpecs
    /\ prefixSkip \in 0..MaxSkip
    /\ schema = NoKeys
    /\ stack = <<>>
    /\ deps = <<>>
    /\ out = ""
    /\ path = ""
    /\ nameOut = ""
    /\ folderOut = ""

NextTwice == GenerateTypes \/ ResolveNames \/ Place \/ PlacedAll \/ RunAgain

SpecTwice == InitTwice /\ [][NextTwice]_vars

FrameSpecs ==
    {[EmptySpec EXCEPT
        !.schemas = <<Entry("A", ObjectOf(<<Prop("p", SchemaRef("B"))>>)),
                      Entry("B", Nullable(Typed("string")))>>,
        !.paths = <<PathItem("/users", {"get", "post"}),
                    [PathItem("/users/{id}", {"get"}) EXCEPT !.details =
                        <<Entry("get", Operation(
                            <<Content(<<>>, <<SchemaRef("A")>>)>>,
                            <<Entry("200", Content(<<"ok">>,
                                <<Nullable(ArrayOf(SchemaRef("B")))>>))>>))>>]>>],
     [EmptySpec EXCEPT
        !.schemas = <<Entry("A", ObjectOf(<<Prop("p", SchemaRef("B"))>>)),
                      Entry("B", ArrayOf(SchemaRef("A")))>>]}
    \cup {sp \in TypesSpecs : sp.paths # <<>> /\ sp.responses # <<>> /\ Len(sp.schemas) > 2}

FrameNodes(sp) ==
    {sp.schemas[k].value : k \in 1..Len(sp.schemas)}
    \cup {SchemaRef("A"), Nullable(Typed("string")),
          Nullable(ObjectOf(<<Prop("p", Nullable(SchemaRef("B")))>>)),
          Nullable([NoKeys EXCEPT !.anyOf = <<<<SchemaRef("B"),
                                               Nullable(Typed("number"))>>>>])}

InitFrame ==
    /\ NothingGenerated
    /\ NothingBuilt
    /\ NothingMerged
    /\ NothingNormalized
    /\ pointer = ""
    /\ spec \in FrameSpecs
    /\ \/ pc \in {"compile", "extract"} /\ schema \in FrameNodes(spec)
       \/ pc = "generate" /\ schema = NoKeys
    /\ prefixSkip \in 0..MaxSkip
    /\ stack = <<>>
    /\ deps = <<>>
    /\ out = ""
    /\ path = ""
    /\ nameOut = ""
    /\ folderOut = ""

NextFrame ==
    \/ Compile
    \/ ExtractStart
    \/ TraverseCall
    \/ TraverseOverflow
    \/ TraverseReturn
    \/ ExtractReturn
    \/ GenerateTypes
    \/ ResolveNames
    \/ Place
    \/ PlacedAll

SpecFrame == InitFrame /\ [][NextFrame]_vars

HasLine(text, prefix) ==
    \E i \in 1..Len(text) :
        /\ i + Len(prefix) - 1 <= Len(text)
        /\ SubSeq(text, i, i + Len(prefix) - 1) = prefix

\* The node is compiled by the object branch.
CompiledAsObject(s) ==
    ~Present(s.ref) /\ RankOf(s, ObjectTyped(s)) = "object"

\* An index signature: a [key: string] member, or the Record form.
IndexSignature(text) ==
    HasLine(text, "\n  [key: string]: ") \/ StartsWith(text, "Record<string, ")

\* C23: for every node compiled as an object, with or without declared
\* properties, the result has an index signature when additionalProperties
\* is a schema or true, and when additionalProperties is false it carries a
\* marker, so it differs from the result for the same node without
\* additionalProperties.
C23_AdditionalPropertiesEmitted ==
    pc = "compiled" /\ CompiledAsObject(schema) =>
        /\ schema.ap \in {"true", "schema"} => IndexSignature(out)
        /\ schema.ap = "false" =>
              out # schemaToTypeScript([schema EXCEPT !.ap = "absent"], spec, 0)


(***************************************************************************)
(* Inline property schemas and the named schemas of the same shape.        *)
(***************************************************************************)
PropertyNames(s) == {s.properties[1][i].key : i \in 1..Len(s.properties[1])}

\* The positions, in the document's order, of the named schemas whose set
\* of property names is that of the inline schema.
SameShape(value, sp) ==
    {k \in 1..Len(sp.schemas) :
        /\ Present(sp.schemas[k].value.properties)
        /\ PropertyNames(sp.schemas[k].value) = PropertyNames(value)}

InlineWithProperties(value) ==
    ~Present(value.ref) /\ Present(value.properties) /\ value.properties[1] # <<>>

\* The type the claim expects for the value of a property.
ClaimedPropertyType(value, sp) ==
    IF InlineWithProperties(value)
    THEN IF SameShape(value, sp) # {}
         THEN sp.schemas[CHOOSE k \in SameShape(value, sp) :
                            \A h \in SameShape(value, sp) : k <= h].name
         ELSE schemaToTypeScript(value, sp, 0)
    ELSE PropertyType(value, sp, 1)

ClaimedMembers(s, sp) ==
    [i \in 1..Len(s.properties[1]) |->
        PropertyLine(s, i, ClaimedPropertyType(s.properties[1][i].value, sp))]
    \o (CASE s.ap = "true" -> <<"  [key: string]: undefined;">>
          [] s.ap = "schema" ->
                <<"  [key: string]: " \o NameOrType(s.apSchema[1], sp, 1) \o ";">>
          [] OTHER -> <<>>)

\* C24: in an object compiled with declared properties, an inline property
\* schema with a non-empty property set is emitted as the name of the first
\* named component schema, in document order, that has the same set of
\* property names, and is compiled normally when there is none.
C24_ShapeMatchSubstitutes ==
    pc = "compiled" /\ ObjectWithProperties(schema) =>
        out = "{\n" \o Join(ClaimedMembers(schema, spec), "\n") \o "\n}"

C24_Witness ==
    /\ pc = "compiled"
    /\ spec # EmptySpec
    /\ schema = ObjectOf(<<Prop("p", ObjectOf(<<Prop("id", Typed("string"))>>)),
                           Prop("q", Nullable([NoKeys EXCEPT
                                !.properties = <<<<Prop("x", Typed("string"))>>>>]))>>)
    /\ out = "{\n  p?: {\n  id?: string;\n};\n  q?: Shape;\n}"


(***************************************************************************)
(* Arrays and enums.                                                       *)
(***************************************************************************)
\* The marker of an unrecognized or absent primitive kind.
UnknownMarker == generatePrimitiveType(NoKeys)

\* C25: a node compiled as an array yields the compiled expression of its
\* items node followed by "[]", and the unknown marker followed by "[]"
\* when it has no items.
C25_ArrayOfCompiledItems ==
    pc = "compiled" /\ ~Present(schema.ref)
        /\ RankOf(schema, ObjectTyped(schema)) = "array" =>
            out = (IF Present(schema.items)
                   THEN schemaToTypeScript(schema.items[1], spec, 0)
                   ELSE UnknownMarker) \o "[]"

\* The string with a backslash put before each of its single quotes.
RECURSIVE EscapedQuotes(_)
EscapedQuotes(text) ==
    IF text = "" THEN ""
    ELSE (IF SubSeq(text, 1, 1) = "'" THEN "\\'" ELSE SubSeq(text, 1, 1))
            \o EscapedQuotes(SubSeq(text, 2, Len(text)))

ClaimedLiteral(v) ==
    IF v.isString THEN "'" \o EscapedQuotes(v.text) \o "'" ELSE v.text

\* C26: a node with a non-empty enum and none of nullable, oneOf, anyOf,
\* allOf yields its values in list order joined by " | ", a string value in
\* single quotes with each single quote inside it escaped, any other value
\* as its literal text.
C26_EnumLiterals ==
    pc = "compiled" /\ ~Present(schema.ref)
        /\ RankOf(schema, ObjectTyped(schema)) = "enum" =>
            out = Join([i \in 1..Len(schema.enum[1]) |->
                            ClaimedLiteral(schema.enum[1][i])], " | ")

C26_Witness ==
    /\ pc = "compiled"
    /\ schema = [Typed("string") EXCEPT
                    !.enum = <<<<StringValue("'a''"), OtherValue("true"),
                                 StringValue(""), OtherValue("null")>>>>]
    /\ out = "'\\'a\\'\\'' | true | '' | null"


(***************************************************************************)
(* config.ts: mergeConfig.  A Config is a function from the field names to *)
(* <<>> (undefined) or <<value>>.  configFile holds the --config path, if  *)
(* one was given, and the content of the file that loadConfigFile reads,   *)
(* <<>> when there is no such file.                                        *)
(***************************************************************************)
ConfigFields ==
    {"input", "output", "clean", "pretty", "verbose", "pathPrefixSkip",
     "generateApiEndpoints"}

NoConfig == [f \in ConfigFields |-> <<>>]

\* The fields filterUndefined copies.
FilteredFields == {"input", "output", "clean", "pretty", "verbose", "pathPrefixSkip"}

filterUndefined(config) ==
    [f \in ConfigFields |-> IF f \in FilteredFields THEN config[f] ELSE <<>>]

\* { ...a, ...b }: a key of b, whatever its value, replaces that of a.
Spread(a, b) == [f \in ConfigFields |-> IF b[f] # <<>> THEN b[f] ELSE a[f]]

ConfigThrown == [threw |-> TRUE, value |-> <<>>]

mergeConfig(cli, file) ==
    IF file.path # <<>> /\ file.content = <<>> THEN ConfigThrown
    ELSE [threw |-> FALSE,
          value |-> <<Spread(IF file.content = <<>> THEN NoConfig ELSE file.content[1],
                             filterUndefined(cli))>>]

MergeConfig ==
    /\ pc = "merge"
    /\ merged' = mergeConfig(cliConfig, configFile)
    /\ pc' = "merged"
    /\ UNCHANGED <<pathVars, docVars, depsVars, out, genVars, urlVars,
                   cliConfig, configFile, normVars>>

\* What the command line can give for a field, and what the file holds; a
\* value is written as its JSON text.
CliValue(f) ==
    CASE f = "input" -> {<<>>, <<"cli.json">>}
      [] f = "output" -> {<<>>, <<"cli-out">>}
      [] f = "pathPrefixSkip" -> {<<>>, <<"0">>}
      [] f = "clean" -> {<<>>, <<"true">>, <<"false">>}
      [] OTHER -> {<<>>, <<"true">>}

FileValue(f) ==
    CASE f = "input" -> <<"file.json">>
      [] f = "output" -> <<"file-out">>
      [] f = "pathPrefixSkip" -> <<"1">>
      [] f = "clean" -> <<"true">>
      [] OTHER -> <<"false">>

CliConfigs == {c \in [ConfigFields -> UNION {CliValue(f) : f \in ConfigFields}] :
                    \A f \in ConfigFields : c[f] \in CliValue(f)}

FileContents ==
    {<<>>, <<NoConfig>>, <<[f \in ConfigFields |-> FileValue(f)]>>}
    \cup {<<[f \in ConfigFields |-> IF f = g THEN FileValue(f) ELSE <<>>]>> :
            g \in ConfigFields}

ConfigFiles ==
    {[path |-> p, content |-> c] : p \in {<<>>, <<"my.config.json">>},
                                   c \in FileContents}

InitConfig ==
    /\ NothingGenerated
    /\ NothingBuilt
    /\ NotMerged
    /\ NothingNormalized
    /\ pointer = ""
    /\ pc = "merge"
    /\ cliConfig \in CliConfigs
    /\ configFile \in ConfigFiles
    /\ spec = EmptySpec
    /\ schema = NoKeys
    /\ prefixSkip = 0
    /\ stack = <<>>
    /\ deps = <<>>
    /\ out = ""
    /\ path = ""
    /\ nameOut = ""
    /\ folderOut = ""

NextConfig == MergeConfig

SpecConfig == InitConfig /\ [][NextConfig]_vars

\* C27: for each of input, output, clean, pretty, verbose, pathPrefixSkip
\* and generateApiEndpoints, the value mergeConfig returns is the value
\* given on the command line when that is defined and the value of the
\* config file otherwise.
C27_CliOverridesFile ==
    pc = "merged" /\ ~merged.threw =>
        \A f \in ConfigFields :
            merged.value[1][f] =
                IF cliConfig[f] # <<>> THEN cliConfig[f]
                ELSE IF configFile.content = <<>> THEN <<>>
                ELSE configFile.content[1][f]


(***************************************************************************)
(* A folder segment that meets a leaf.                                     *)
(***************************************************************************)
FolderSegmentsOf(meta) ==
    IF meta.folderPath = "" THEN <<>>
    ELSE SelectSeq(Split(meta.folderPath, "/"), NonEmptyStr)

\* The keys `at` lead to a segment of the walk down folderSegments.
OnTheWay(at, folderSegments) ==
    /\ Len(at) > 0
    /\ Len(at) <= Len(folderSegments)
    /\ SubSeq(folderSegments, 1, Len(at)) = at

\* C28: when the endpoint being placed walks through a segment that holds
\* a leaf URL, the segment holds a folder afterwards, the URL is in that
\* folder under '_self', unchanged, and the endpoint is in the tree; a
\* '_self' entry stays where it is whenever a later endpoint is placed
\* under its segment.
C28_LeafKeptUnderSelf ==
    [][pc = "placing" /\ placed' = placed + 1 =>
        LET meta == metas[placed + 1]
            folderSegments == FolderSegmentsOf(meta)
        IN  /\ \A e \in structure :
                  e.leaf /\ e.url # "" /\ OnTheWay(e.at, folderSegments) =>
                      /\ Folder(e.at) \in structure'
                      /\ Leaf(Append(e.at, "_self"), e.url) \in structure'
            /\ \A e \in structure :
                  /\ e.leaf
                  /\ e.at[Len(e.at)] = "_self"
                  /\ OnTheWay(SubSeq(e.at, 1, Len(e.at) - 1), folderSegments)
                  => e \in structure'
            /\ Leaf(Append(folderSegments, resolvedNames[placed + 1]), meta.path)
                    \in structure']_vars

C28_Witness ==
    /\ pc = "generated"
    /\ Leaf(<<"users", "_self">>, "/users") \in structure
    /\ \E e \in structure :
            e.leaf /\ e.url = "/users/list/all" /\ OnTheWay(<<"users", "list">>, e.at)


(***************************************************************************)
(* The named types in the declaration of a named schema.                   *)
(***************************************************************************)
\* The names an object with declared properties is emitted with: the
\* trailing name of each reference property and the name substituted for
\* each inline property that has the shape of a named schema.
EmittedNames(s, sp) ==
    {ClaimedPropertyType(s.properties[1][i].value, sp) :
        i \in {j \in 1..Len(s.properties[1]) :
                LET value == s.properties[1][j].value
                IN  \/ Present(value.ref)
                    \/ InlineWithProperties(value) /\ SameShape(value, sp) # {}}}

\* C29: in the declaration generateTypes produces for a named object
\* schema, every named type its type expression is emitted with, as the
\* trailing name of a $ref property or in place of an inline object of the
\* same shape, is in the declaration's dependencies.
C29_EmittedNamesAreDependencies ==
    pc = "typed" =>
        \A k \in 1..Len(spec.schemas) :
            ObjectWithProperties(spec.schemas[k].value) =>
                \E t \in 1..Len(typeMap) :
                    /\ typeMap[t].name = spec.schemas[k].name
                    /\ EmittedNames(spec.schemas[k].value, spec)
                            \subseteq Range(typeMap[t].value.dependencies)


(***************************************************************************)
(* parser.ts: normalizeSpec on a Swagger 2.0 document.  Only the paths are *)
(* converted; definitions, parameters and responses are copied key by key. *)
(* A path item is [path, operations], operations a mapping from the method *)
(* to [parameters, requestBody]; an entry of parameters is a reference or  *)
(* a parameter with its name, place, schema and required flag.             *)
(***************************************************************************)
MaxParams == 3

ParameterRef(r) ==
    [ref |-> <<r>>, name |-> "", in |-> "", schema |-> <<>>, required |-> <<>>]

SwaggerParameter(name, where, s, required) ==
    [ref |-> <<>>, name |-> name, in |-> where, schema |-> s, required |-> required]

SwaggerOperation(parameters) == [parameters |-> parameters, requestBody |-> <<>>]

\* (p) => !isRef(p) && p.in === 'body'
IsBodyParam(p) == p.ref = <<>> /\ p.in = "body"

\* (p) => !(isRef(p) ? false : p.in !== 'body')
KeptByFilter(p) == ~(IF p.ref # <<>> THEN FALSE ELSE p.in # "body")

ConvertedMethods == {"get", "post", "put", "patch", "delete"}

\* The body of the loop over the methods, for one operation.
ConvertOperation(method, operation) ==
    IF method \in ConvertedMethods /\ operation.parameters # <<>>
    THEN LET found == SelectSeq(operation.parameters[1], IsBodyParam)
         IN  IF Len(found) > 0 /\ found[1].schema # <<>>
             THEN [parameters |-> <<SelectSeq(operation.parameters[1], KeptByFilter)>>,
                   requestBody |->
                       <<[required |-> IF found[1].required = <<TRUE>> THEN TRUE
                                       ELSE FALSE,
                          json |-> found[1].schema]>>]
             ELSE operation
    ELSE operation

convertSwaggerPaths(paths) ==
    [k \in 1..Len(paths) |->
        [path |-> paths[k].path,
         operations |->
            [m \in 1..Len(paths[k].operations) |->
                Entry(paths[k].operations[m].name,
                      ConvertOperation(paths[k].operations[m].name,
                                       paths[k].operations[m].value))]]]

\* converted[path] = { ...pathItem } copies the path item only: the
\* operations of the result are the operations of the document given, and
\* the assignments to operation.parameters and operation.requestBody show
\* in both.
NormalizeSpec ==
    /\ pc = "normalize"
    /\ normalized' = convertSwaggerPaths(swagger)
    /\ swagger' = normalized'
    /\ pc' = "normalized"
    /\ UNCHANGED <<pathVars, docVars, depsVars, out, genVars, urlVars, configVars>>

SwaggerParameters ==
    {SwaggerParameter("id", "path", <<>>, <<TRUE>>),
     SwaggerParameter("q", "query", <<>>, <<>>),
     SwaggerParameter("X-Trace", "header", <<>>, <<FALSE>>),
     SwaggerParameter("payload", "body", <<SchemaRef("User")>>, <<TRUE>>),
     SwaggerParameter("payload", "body", <<Typed("string")>>, <<>>),
     SwaggerParameter("payload", "body", <<>>, <<>>),
     ParameterRef("#/parameters/Page")}

\* A Swagger 2.0 operation has at most one body parameter.
OneBody(parameters) ==
    Cardinality({i \in 1..Len(parameters) : IsBodyParam(parameters[i])}) <= 1

ParameterLists ==
    {<<>>} \cup {<<l>> : l \in {ps \in SeqsUpTo(SwaggerParameters, MaxParams) :
                                    OneBody(ps)}}

SwaggerPaths ==
    {<<[path |-> "/users",
        operations |-> <<Entry(method, SwaggerOperation(parameters))>>]>> :
        method \in {"post", "delete", "options"}, parameters \in ParameterLists}

InitNormalize ==
    /\ NothingGenerated
    /\ NothingBuilt
    /\ NothingMerged
    /\ pointer = ""
    /\ pc = "normalize"
    /\ swagger \in SwaggerPaths
    /\ normalized = <<>>
    /\ spec = EmptySpec
    /\ schema = NoKeys
    /\ prefixSkip = 0
    /\ stack = <<>>
    /\ deps = <<>>
    /\ out = ""
    /\ path = ""
    /\ nameOut = ""
    /\ folderOut = ""

NextNormalize == NormalizeSpec

SpecNormalize == InitNormalize /\ [][NextNormalize]_vars

\* The body parameter the operation has with a schema, as a set.
BodyWithSchema(operation) ==
    {p \in Range(ListOf(operation.parameters)) : IsBodyParam(p) /\ p.schema # <<>>}

\* C30: for every operation of the Swagger 2.0 document that has a body
\* parameter with a schema (under a method the converter handles), the
\* converted operation has a requestBody whose application/json schema is
\* that parameter's schema, and its parameters are the original ones
\* without the body parameter, in their original order.
C30_BodyParameterConverted ==
    [][pc = "normalize" /\ pc' = "normalized" =>
        \A k \in 1..Len(swagger) : \A m \in 1..Len(swagger[k].operations) :
            LET given == swagger[k].operations[m].value
                result == normalized'[k].operations[m].value
            IN  /\ swagger[k].operations[m].name \in ConvertedMethods
                /\ BodyWithSchema(given) # {}
                => /\ Len(result.requestBody) = 1
                   /\ \A p \in BodyWithSchema(given) :
                        result.requestBody[1].json = p.schema
                   /\ result.parameters =
                        <<SelectSeq(given.parameters[1], LAMBDA p : ~IsBodyParam(p))>>]_vars

====
